---- MODULE Spec2Model ----
(***************************************************************************)
(* A model of the resilience components of the voxa HTTP client:           *)
(*   - CircuitBreakerManager (features/circuit-breaker/circuit-breaker.ts) *)
(*   - QueueManager          (src/lib/features/queue/manager.ts)           *)
(*   - RetryManager / dispatchRequest (retry/manager.ts, client/request.ts)*)
(*   - Voxa.request and DeduplicationManager (the client's request path)   *)
(* Each component has its own specification (SpecCB, SpecQueue, SpecRetry, *)
(* SpecClient); the variables of the other components stay at their        *)
(* initial values in it.                                                   *)
(***************************************************************************)
EXTENDS Integers, Sequences, FiniteSets, TLC

(***************************************************************************)
(* Bounds of the model.                                                    *)
(***************************************************************************)
\* circuit breaker
MaxThreshold == 3      \* config.threshold ranges over 1..MaxThreshold
MaxTimeout == 2        \* config.timeout ranges over 0..MaxTimeout
MaxFailures == 5       \* recordFailure() is called while failureCount < MaxFailures
MaxClock == 6          \* Date.now() ranges over 0..MaxClock
MaxProbes == 2         \* canAttemptRequest() calls answered true, counted up to this
MaxOpens == 3          \* recordFailure() is called while onOpen was invoked < MaxOpens times
\* queue manager
MaxRequests == 5       \* number of QueueManager.enqueue() calls
MaxConcurrentCfg == 2  \* config.maxConcurrent ranges over 1..MaxConcurrentCfg
MaxQueueClock == 1     \* Date.now() ranges over 0..MaxQueueClock while the queue is used

\* retry / dispatchRequest
MaxCount == 6          \* config.retry.count ranges over 0..MaxCount
MaxDelay == 3          \* config.retry.delay ranges over 0..MaxDelay and 100
MaxRetryCap == 5       \* config.retry.maxRetry ranges over 0..MaxRetryCap and 1000
\* client request path
MaxCallers == 3        \* number of calls made on one Voxa instance
MaxGuardAttempts == 1       \* retries of the guarded attempt (attempts 0..MaxGuardAttempts)
MaxRateTasks == 4      \* calls of RateLimiter.enqueue
MaxRateRequests == 2   \* largest config.maxRequests
MaxPer == 2            \* largest config.perMilliseconds, in poll intervals
MaxCacheKeys == 1      \* distinct cache keys
MaxTtl == 2            \* largest ttl passed to set() or configured, in half seconds
MaxCacheClock == 3     \* how far Date.now() advances, in half seconds
MaxDedupTtl == 2       \* largest TTL of the deduplication manager, in clock ticks
MaxPromises == 2       \* promises handed to setPending
MaxBatchRequests == 3  \* calls of BatchManager.add
MaxBatchSize == 2      \* largest config.maxBatchSize
MaxOffline == 4        \* calls of OfflineQueueManager.addRequest
MaxInvocations == 2    \* calls of processQueue() that can be under way at once
MaxKeys == 2           \* number of distinct (method, URL, body) triples requested

\* program constants
DefaultMaxConcurrent == 6   \* this.config.maxConcurrent || 6
RetryCountCeiling == 5      \* Math.min(merged.count ?? 5, 5)
PollTicks == 1              \* setTimeout(..., 100): time is counted in units of 100 ms
UnitsPerSecond == 2         \* cache time is counted in units of 500 ms (1000 ms = 2 units)
DefaultTtl == 600           \* 300000 ms, the TTL used when none is given
HitStatus == 200            \* the status of a response rebuilt from a stored entry
EnforcedRetryCount == 5     \* Voxa constructor: { ..., enabled: true, count: 5 }

VARIABLES
    \* ---- QueueManager ----
    queue,             \* this.queue: sequence of [id, priority, timestamp]
    activeRequests,    \* this.activeRequests
    qEnabled,          \* this.config.enabled
    maxConcurrent,     \* this.config.maxConcurrent
    qClock,            \* Date.now() as the queue reads it
    nextId,            \* the id of the next enqueue() call (ids are given in call order)
    running,           \* the executors started and not yet settled: [id, via, priority]
    settled,           \* per call: "none" (not called), "pending", "resolved", "rejected"
    rejection,         \* per call: what a rejected caller received: "none", "original"
                       \* (the executor's error itself), "cause" (a new Error whose cause
                       \* is the executor's error), "lost" (an Error without it)
    \* ---- RetryManager and dispatchRequest ----
    given,             \* the retry options the user wrote: [enabled, count, delay, exponentialBackoff, maxRetry]
    source,            \* where the user wrote them: "instance" (create(config)) or "request" (per call)
    urlOk,             \* whether new URL(url) parses (isValidUrl)
    hasSignal,         \* whether the caller passed an AbortSignal
    retry,             \* config.retry as dispatchRequest receives it
    retryConfig,       \* retryManager.getRetryConfig()
    pc,                \* where dispatchRequest is: "idle", "attempt" (top of the loop body),
                       \* "validate" (awaiting isPrivateIp(url)), "fetching", "checkRedirect"
                       \* (awaiting isPrivateIp(response.url)), "sleep", "returned", "thrown"
    attempt,           \* the loop index of dispatchRequest
    waitTime,          \* the delay of the sleep in progress (or of the last one)
    fetches,           \* number of fetch() calls made
    sleeps,            \* the delays slept so far, in order
    lastOutcome,       \* outcome of the last attempt
    aborted,           \* signal.aborted of the caller's signal
    timerArmed,        \* the attempt's setTimeout(() => abortController.abort(), timeout) is pending
    timedOut,          \* abortController.signal.aborted: the attempt's timer has fired
    sleepTimerArmed,   \* the setTimeout of retryManager.sleep is pending
    sleepSettled,      \* number of resolve()/reject() calls on the current sleep promise
    \* history of the dispatch, read by the properties only
    abortedIn,         \* pc when the caller aborted, "never" before
    fetchesAtAbort,    \* fetches when the caller aborted
    allRetryable,      \* every attempt so far ended in a retryable status or a network error
    allStatus,         \* every attempt so far ended in a retryable status
    \* ---- Voxa.request and DeduplicationManager ----
    calls,             \* per caller: [pc, key, leader, dispatched, value]
    dispatching,       \* per key: number of dispatchRequest() calls in flight
    metadata,          \* MetadataManager.metadata: the request ids stored
    errorsEnabled,     \* config.errors.enabled !== false
    errorClassifier,   \* this.errorClassifier is set (the import in the constructor resolved)
    surfaced,          \* per caller: the classifier its call captured, the error first
                       \* thrown and the error request() threw, as its cause chain
    \* ---- CircuitBreakerManager ----
    state,             \* this.state: "CLOSED" | "OPEN" | "HALF_OPEN"
    failureCount,      \* this.failureCount
    lastFailureTime,   \* this.lastFailureTime
    threshold,         \* this.config.threshold, a number >= 1
    timeout,           \* this.config.timeout
    clock,             \* Date.now() as the circuit breaker reads it
    onOpenCalls,       \* number of invocations of config.onOpen
    lastResult,        \* value returned by the last canAttemptRequest(): "none" before any call
    \* history of the calls, read by the properties only
    consecFailures,    \* recordFailure() calls since the last recordSuccess() (or construction)
    admitted,          \* canAttemptRequest() calls answered true since the circuit left OPEN
    failedIn,          \* circuit state in which the last recordFailure() was called
    lastSuccessIn,     \* circuit state in which the last recordSuccess() was called
    closedToOpen,      \* number of CLOSED -> OPEN transitions
    deniedAt,          \* clock of the last canAttemptRequest() answered false, -1 if none
    \* ---- SafetyGuard: isPrivateIp and filterHeaders within one dispatchRequest ----
    host,              \* new URL(url).hostname of the target
    headers,           \* config.headers
    lookup,            \* what dns.lookup(host, { all: true }) answered in the last check
    guardPc,           \* "attempt", "checked" (isPrivateIp said false), "fetched", "blocked"
    guardAttempt,      \* the loop variable attempt
    isPrivate,         \* the last answer of isPrivateIp(url)
    sentHeaders,       \* the headers option of the last fetch call
    guardFetches,      \* number of fetch calls made
    checkedAttempt,    \* history: the attempt whose URL checks last passed, -1 if none
    \* ---- RateLimiter ----
    rateEnabled,       \* this.config.enabled
    maxRequests,       \* this.config.maxRequests
    perMilliseconds,   \* this.config.perMilliseconds
    requestTimestamps, \* this.requestTimestamps, each kept as its age Date.now() - ts
                       \* (an age of perMilliseconds or more is kept as perMilliseconds)
    rateQueue,         \* this.queue: the ids of the waiting tasks
    timer,             \* this.timer is set
    timerAge,          \* time since the timer was armed, up to PollTicks
    nextTask,          \* the id of the next enqueue() call
    rateRunning,       \* the tasks whose fn() was called and has not settled
    rateSettled,       \* per task: "none" (not called), "pending", "resolved", "rejected"
    \* history of the limiter, read by the properties only
    dispatchAge,       \* per task: time since its fn() was called (capped like the
                       \* timestamps), -1 before
    waited,            \* the tasks that were not dispatched by their own enqueue() call
    \* ---- CacheManager: three managers, one per storage, given the same calls ----
    managers,          \* the storages (config.storage) of the managers constructed
    cacheEnabled,      \* config.enabled
    configTtl,         \* config.ttl
    cacheClock,        \* Date.now()
    cacheStore,        \* per storage and key: the entry held (memoryCache, the file of
                       \* FileStorage, the custom adapter's record)
    evictionTimers,    \* the setTimeout callbacks armed by set() on the memory cache
    staleGet,          \* per storage: the key of a get() that found a stale entry and
                       \* is awaiting this.delete(key); 0 if none
    lastGet,           \* per storage: what the last get() returned
    \* history of the cache, read by the properties only
    timerSpared,       \* a callback of an eviction timer has run and kept the entry
    latestSet,         \* per key: the caller's last set() unless deleted or cleared since
    \* ---- DeduplicationManager ----
    dedupEnabled,      \* this.enabled
    TTL,               \* this.TTL
    pendingRequests,   \* this.pendingRequests: per key the promise registered and its
                       \* age Date.now() - timestamp (an age of TTL or more is kept as TTL)
    cleanupInterval,   \* this.cleanupInterval is set and not cleared
    promiseState,      \* per promise handed to setPending: "none", "pending", "resolved", "rejected"
    nextPromise,       \* the id of the next promise
    lastPending,       \* what the last getPending() returned
    \* ---- BatchManager ----
    maxBatchSize,      \* this.config.maxBatchSize; -1 when it is undefined
    batchRequests,     \* this.requests: the ids of the requests not yet spliced off
    batchTimeout,      \* the timer of this.batchTimeout is armed
    inFlight,          \* the batches whose execute() awaits fetch() or response.json()
    batchSettled,      \* per request: "none", "pending", "resolved", "rejected"
    nextBatchRequest,  \* the id of the next request added
    batchSent,         \* the requests that were part of the body of a fetch
    \* ---- OfflineQueueManager ----
    offlineEnabled,    \* this.config.enabled
    onLine,            \* navigator.onLine
    offlineQueue,      \* this.queue: the ids of the queued requests
    invocations,       \* per call of processQueue(): "idle" or "awaiting" the fetch of req
    offlineSent,       \* per request: the number of its fetches that resolved
    nextOffline        \* the id of the next request queued

cbVars == <<state, failureCount, lastFailureTime, threshold, timeout, clock,
            onOpenCalls, lastResult, consecFailures, admitted, failedIn,
            lastSuccessIn, closedToOpen, deniedAt>>

queueVars == <<queue, activeRequests, qEnabled, maxConcurrent, qClock, nextId,
               running, settled, rejection>>

retryVars == <<given, source, urlOk, hasSignal, retry, retryConfig, pc, attempt,
               waitTime, fetches, sleeps, lastOutcome, aborted, timerArmed,
               timedOut, sleepTimerArmed, sleepSettled, abortedIn,
               fetchesAtAbort, allRetryable, allStatus>>

clientVars == <<calls, dispatching, metadata, errorsEnabled, errorClassifier,
                surfaced>>

guardVars == <<host, headers, lookup, guardPc, guardAttempt, isPrivate,
               sentHeaders, guardFetches, checkedAttempt>>

rateVars == <<rateEnabled, maxRequests, perMilliseconds, requestTimestamps,
              rateQueue, timer, timerAge, nextTask, rateRunning, rateSettled,
              dispatchAge, waited>>

cacheVars == <<managers, cacheEnabled, configTtl, cacheClock, cacheStore, evictionTimers,
               staleGet, lastGet, latestSet, timerSpared>>

dedupVars == <<dedupEnabled, TTL, pendingRequests, cleanupInterval, promiseState,
               nextPromise, lastPending>>

batchVars == <<maxBatchSize, batchRequests, batchTimeout, inFlight, batchSettled, nextBatchRequest, batchSent>>

offlineVars == <<offlineEnabled, onLine, offlineQueue, invocations, offlineSent, nextOffline>>

vars == <<cbVars, queueVars, retryVars, clientVars, guardVars, rateVars,
         cacheVars, dedupVars, batchVars, offlineVars>>

\* what each component leaves alone
notCB == <<queueVars, retryVars, clientVars, guardVars, rateVars, cacheVars,
           dedupVars, batchVars, offlineVars>>
notQueue == <<cbVars, retryVars, clientVars, guardVars, rateVars, cacheVars,
              dedupVars, batchVars, offlineVars>>
notRetry == <<cbVars, queueVars, clientVars, guardVars, rateVars, cacheVars,
              dedupVars, batchVars, offlineVars>>
notClient == <<cbVars, queueVars, retryVars, guardVars, rateVars, cacheVars,
               dedupVars, batchVars, offlineVars>>
notGuard == <<cbVars, queueVars, retryVars, clientVars, rateVars, cacheVars,
              dedupVars, batchVars, offlineVars>>
notRate == <<cbVars, queueVars, retryVars, clientVars, guardVars, cacheVars,
             dedupVars, batchVars, offlineVars>>
notCache == <<cbVars, queueVars, retryVars, clientVars, guardVars, rateVars,
              dedupVars, batchVars, offlineVars>>
notDedup == <<cbVars, queueVars, retryVars, clientVars, guardVars, rateVars,
              cacheVars, batchVars, offlineVars>>
notBatch == <<cbVars, queueVars, retryVars, clientVars, guardVars, rateVars,
              cacheVars, dedupVars, offlineVars>>
notOffline == <<cbVars, queueVars, retryVars, clientVars, guardVars, rateVars,
                cacheVars, dedupVars, batchVars>>

(***************************************************************************)
(* CircuitBreakerManager                                                   *)
(***************************************************************************)
CircuitState == {"CLOSED", "OPEN", "HALF_OPEN"}

\* constructor: state = CLOSED, failureCount = 0, lastFailureTime = 0
CBIdle ==
    /\ state = "CLOSED"
    /\ failureCount = 0
    /\ lastFailureTime = 0
    /\ clock = 0
    /\ onOpenCalls = 0
    /\ lastResult = "none"
    /\ consecFailures = 0
    /\ admitted = 0
    /\ failedIn = "NONE"
    /\ lastSuccessIn = "NONE"
    /\ closedToOpen = 0
    /\ deniedAt = -1

CBInit ==
    /\ threshold \in 1..MaxThreshold
    /\ timeout \in 0..MaxTimeout
    /\ CBIdle

\* shouldOpenCircuit(): this.failureCount >= threshold
ShouldOpenGreater(fc, th) == fc > th
ShouldOpenAtDefault(fc, th) == fc >= MaxFailures
ShouldOpenCircuit(fc, th) == fc >= th

\* canAttemptRequest(), OPEN branch: Date.now() - this.lastFailureTime > timeout
TimeoutElapsedAtLeast(t, last, to) == t - last >= to
TimeoutElapsed(t, last, to) == t - last > to

\* canAttemptRequest(): the state after the call and the value returned
CanAttemptAfter(s, t, last, to) ==
    IF s = "CLOSED" THEN [state |-> "CLOSED", ret |-> "true"]
    ELSE IF s = "OPEN"
         THEN IF TimeoutElapsed(t, last, to)
              THEN [state |-> "HALF_OPEN", ret |-> "true"]
              ELSE [state |-> "OPEN", ret |-> "false"]
         ELSE [state |-> s, ret |-> IF s = "HALF_OPEN" THEN "true" ELSE "false"]

CanAttemptRequest ==
    /\ admitted < MaxProbes
    /\ LET r == CanAttemptAfter(state, clock, lastFailureTime, timeout) IN
         /\ state' = r.state
         /\ lastResult' = r.ret
         /\ admitted' = IF r.ret = "true" /\ r.state = "HALF_OPEN"
                        THEN admitted + 1 ELSE admitted
         /\ deniedAt' = IF r.ret = "false" THEN clock ELSE deniedAt
    /\ UNCHANGED <<failureCount, lastFailureTime, threshold, timeout, clock,
                   onOpenCalls, consecFailures, failedIn, lastSuccessIn,
                   closedToOpen>>
    /\ UNCHANGED notCB

\* recordFailure(): the new lastFailureTime
FailureTimeKept(t, last) == last
FailureTime(t, last) == t

\* recordFailure()
RecordFailure ==
    /\ failureCount < MaxFailures
    /\ onOpenCalls < MaxOpens
    /\ failureCount' = failureCount + 1
    /\ lastFailureTime' = FailureTime(clock, lastFailureTime)
    /\ IF ShouldOpenCircuit(failureCount + 1, threshold)
       THEN /\ state' = "OPEN"
            /\ onOpenCalls' = onOpenCalls + 1
       ELSE UNCHANGED <<state, onOpenCalls>>
    /\ consecFailures' = consecFailures + 1
    /\ failedIn' = state
    /\ admitted' = 0
    /\ closedToOpen' = IF state = "CLOSED" /\ state' = "OPEN"
                       THEN closedToOpen + 1 ELSE closedToOpen
    /\ UNCHANGED <<threshold, timeout, clock, lastResult, lastSuccessIn, deniedAt>>
    /\ UNCHANGED notCB

\* recordSuccess(): the new failureCount
SuccessCountKept(fc) == fc
SuccessCount(fc) == 0

\* recordSuccess()
RecordSuccess ==
    /\ failureCount' = SuccessCount(failureCount)
    /\ state' = "CLOSED"
    /\ consecFailures' = 0
    /\ lastSuccessIn' = state
    /\ admitted' = 0
    /\ UNCHANGED <<lastFailureTime, threshold, timeout, clock, onOpenCalls,
                   lastResult, failedIn, closedToOpen, deniedAt>>
    /\ UNCHANGED notCB

\* getState(): return this.state
GetState ==
    /\ UNCHANGED cbVars
    /\ UNCHANGED notCB

\* the passing of time between two calls
CBTick ==
    /\ clock < MaxClock
    /\ clock' = clock + 1
    /\ UNCHANGED <<state, failureCount, lastFailureTime, threshold, timeout,
                   onOpenCalls, lastResult, consecFailures, admitted, failedIn,
                   lastSuccessIn, closedToOpen, deniedAt>>
    /\ UNCHANGED notCB

(***************************************************************************)
(* QueueManager                                                            *)
(***************************************************************************)
Priorities == {"critical", "high", "normal", "low"}

\* sortQueue(): const priorities = { critical: 4, high: 3, normal: 2, low: 1 }
PriorityValue(p) ==
    CASE p = "critical" -> 4
      [] p = "high" -> 3
      [] p = "normal" -> 2
      [] p = "low" -> 1
      [] OTHER -> 2

\* sortQueue(): the comparator; a negative value puts a before b
CompareAscending(a, b) ==
    LET priorityDiff == PriorityValue(a.priority) - PriorityValue(b.priority) IN
    IF priorityDiff = 0 THEN a.timestamp - b.timestamp ELSE priorityDiff
Compare(a, b) ==
    LET priorityDiff == PriorityValue(b.priority) - PriorityValue(a.priority) IN
    IF priorityDiff = 0 THEN a.timestamp - b.timestamp ELSE priorityDiff

\* Array.prototype.sort is stable: an element goes after every element that
\* does not compare greater than it
RECURSIVE InsertStable(_, _)
InsertStable(s, x) ==
    IF s = <<>> THEN <<x>>
    ELSE IF Compare(Head(s), x) <= 0
         THEN <<Head(s)>> \o InsertStable(Tail(s), x)
         ELSE <<x>> \o s

RECURSIVE SortQueue(_)
SortQueue(q) ==
    IF q = <<>> THEN <<>>
    ELSE InsertStable(SortQueue(SubSeq(q, 1, Len(q) - 1)), q[Len(q)])

\* const maxConcurrent = this.config.maxConcurrent || 6
EffectiveMaxConcurrent(cfg) == IF cfg = 0 THEN DefaultMaxConcurrent ELSE cfg

\* enqueue(): if (this.activeRequests < maxConcurrent)
UnderLimitOrAt(active, max) == active <= max
UnderLimit(active, max) == active < max

\* processQueue(): while (this.activeRequests < maxConcurrent && this.queue.length > 0)
HasFreeSlotBelowLast(active, max) == active + 1 < max
HasFreeSlot(active, max) == active < max

\* what the caller of a rejected executor receives: the rejection of
\* `return await execute()` itself, or item.reject(new Error(error?.message ||
\* String(error), { cause: error })) for an executor started by processQueue()
RejectionWithoutCause(via) == IF via = "queued" THEN "lost" ELSE "original"
RejectionOf(via) == IF via = "queued" THEN "cause" ELSE "original"

\* processQueue(): the loop; yields the queue left, the counter and the items started
ProcessQueueSkipped(q, active, max, started) ==
    [queue |-> q, active |-> active, started |-> started]
RECURSIVE ProcessQueue(_, _, _, _)
ProcessQueue(q, active, max, started) ==
    IF HasFreeSlot(active, max) /\ Len(q) > 0
    THEN ProcessQueue(Tail(q), active + 1, max, Append(started, Head(q)))
    ELSE [queue |-> q, active |-> active, started |-> started]

SeqRange(s) == {s[i] : i \in 1..Len(s)}

\* constructor: queue = [], activeRequests = 0
QueueIdle ==
    /\ queue = <<>>
    /\ activeRequests = 0
    /\ qEnabled = TRUE
    /\ maxConcurrent = 1
    /\ qClock = 0
    /\ nextId = 1
    /\ running = {}
    /\ settled = [i \in 1..MaxRequests |-> "none"]
    /\ rejection = [i \in 1..MaxRequests |-> "none"]

QueueInit ==
    /\ queue = <<>>
    /\ activeRequests = 0
    /\ qEnabled \in BOOLEAN
    /\ maxConcurrent \in 1..MaxConcurrentCfg
    /\ qClock = 0
    /\ nextId = 1
    /\ running = {}
    /\ settled = [i \in 1..MaxRequests |-> "none"]
    /\ rejection = [i \in 1..MaxRequests |-> "none"]

\* enqueue(execute, priority, requestId)
Enqueue(p) ==
    /\ nextId <= MaxRequests
    /\ nextId' = nextId + 1
    /\ settled' = [settled EXCEPT ![nextId] = "pending"]
    /\ IF ~qEnabled
       THEN \* queue disabled: return execute()
            /\ running' = running \cup {[id |-> nextId, via |-> "passthrough", priority |-> "any"]}
            /\ UNCHANGED <<queue, activeRequests>>
       ELSE IF UnderLimit(activeRequests, EffectiveMaxConcurrent(maxConcurrent))
       THEN \* under the limit: activeRequests++, await execute()
            /\ activeRequests' = activeRequests + 1
            /\ running' = running \cup {[id |-> nextId, via |-> "direct", priority |-> "any"]}
            /\ UNCHANGED queue
       ELSE \* this.queue.push(...); this.sortQueue()
            /\ queue' = SortQueue(Append(queue,
                   [id |-> nextId, priority |-> p, timestamp |-> qClock]))
            /\ UNCHANGED <<activeRequests, running>>
    /\ UNCHANGED <<qEnabled, maxConcurrent, qClock, rejection>>
    /\ UNCHANGED notQueue

\* an executor settles: the caller is resolved or rejected, then (finally)
\* activeRequests-- and processQueue()
Complete(r, ok) ==
    /\ r \in running
    /\ settled' = [settled EXCEPT ![r.id] = IF ok THEN "resolved" ELSE "rejected"]
    /\ rejection' = [rejection EXCEPT ![r.id] = IF ok THEN "none" ELSE RejectionOf(r.via)]
    /\ IF r.via = "passthrough"
       THEN /\ running' = running \ {r}
            /\ UNCHANGED <<queue, activeRequests>>
       ELSE LET after == ProcessQueue(queue, activeRequests - 1,
                             EffectiveMaxConcurrent(maxConcurrent), <<>>) IN
            /\ queue' = after.queue
            /\ activeRequests' = after.active
            /\ running' = (running \ {r}) \cup
                   {[id |-> i.id, via |-> "queued", priority |-> i.priority] :
                       i \in SeqRange(after.started)}
    /\ UNCHANGED <<qEnabled, maxConcurrent, qClock, nextId>>
    /\ UNCHANGED notQueue

\* the passing of time between two calls
QueueTick ==
    /\ qClock < MaxQueueClock
    /\ qClock' = qClock + 1
    /\ UNCHANGED <<queue, activeRequests, qEnabled, maxConcurrent, nextId,
                   running, settled, rejection>>
    /\ UNCHANGED notQueue

\* clear(), also reached through Voxa.clearQueue(): this.queue = []
Clear ==
    /\ queue' = <<>>
    /\ UNCHANGED <<activeRequests, qEnabled, maxConcurrent, qClock, nextId, running,
                   settled, rejection>>
    /\ UNCHANGED notQueue

\* dispose(): this.clear(); this.activeRequests = 0
Dispose ==
    /\ queue' = <<>>
    /\ activeRequests' = 0
    /\ UNCHANGED <<qEnabled, maxConcurrent, qClock, nextId, running, settled, rejection>>
    /\ UNCHANGED notQueue

(***************************************************************************)
(* RetryManager and dispatchRequest                                        *)
(***************************************************************************)
Min(a, b) == IF a <= b THEN a ELSE b

\* Math.pow(2, attempt)
RECURSIVE Pow2(_)
Pow2(n) == IF n = 0 THEN 1 ELSE 2 * Pow2(n - 1)

\* getRetryConfig(): count is clamped to 5
GetRetryConfigUnclamped(cfg) ==
    [count |-> cfg.count, delay |-> cfg.delay,
     exponentialBackoff |-> cfg.exponentialBackoff, maxRetry |-> cfg.maxRetry]
GetRetryConfig(cfg) ==
    [count |-> Min(cfg.count, RetryCountCeiling),
     delay |-> cfg.delay,
     exponentialBackoff |-> cfg.exponentialBackoff,
     maxRetry |-> cfg.maxRetry]

\* calculateRetryDelay(attempt, delay, exponentialBackoff, maxRetry)
CalculateRetryDelayUncapped(n, delay, exponentialBackoff, maxRetry) ==
    IF exponentialBackoff THEN delay * Pow2(n) ELSE delay
CalculateRetryDelayAlwaysBackoff(n, delay, exponentialBackoff, maxRetry) ==
    Min(delay * Pow2(n), maxRetry)
CalculateRetryDelay(n, delay, exponentialBackoff, maxRetry) ==
    LET w == IF exponentialBackoff THEN delay * Pow2(n) ELSE delay IN
    Min(w, maxRetry)

\* what the fetch of one attempt can end in:
\*   "ok"              a response with response.ok
\*   "retryStatus"     a response that is not ok, its status in retryConfig.statusCodes
\*   "otherStatus"     a response that is not ok, its status not in the set
\*   "typeError"       fetch threw a TypeError (network failure)
\*   "otherError"      any other error thrown by fetch
\*   "redirected"      a response with response.redirected, its status read
\*                     after isPrivateIp(response.url) has answered
\* an attempt can also end before its fetch ("blockedMalformed",
\* "blockedPrivate"), by its redirect ("blockedRedirect"), by the caller's
\* abort ("abort") or by its timer ("timeout")
AttemptOutcomes ==
    {"ok", "retryStatus", "otherStatus", "typeError", "otherError", "redirected"}

ResponseKinds == {"ok", "retryStatus", "otherStatus"}

\* the three 'Blocked: ...' errors of dispatchRequest
IsBlocked(o) == o \in {"blockedMalformed", "blockedPrivate", "blockedRedirect"}

\* catch block: error.name === 'AbortError' || error.name === 'TypeError' ||
\* error.message.includes('fetch')
IsRetryableAnyError(o) == o \in {"typeError", "abort", "timeout"} \/ IsBlocked(o)
IsRetryable(o) == o \in {"typeError", "abort", "timeout"}

\* the end of an attempt that is not retried: return response / throw error
SettleKindThrowOnStatus(o) ==
    IF o \in {"ok", "otherStatus"} THEN "returned" ELSE "thrown"
SettleKind(o) ==
    IF o \in {"ok", "retryStatus", "otherStatus"} THEN "returned" ELSE "thrown"

\* Voxa constructor: retry count is enforced as 5 unless retry.enabled === false
VoxaConstructorRetry(userRetry) ==
    IF userRetry.enabled # FALSE
    THEN [userRetry EXCEPT !.enabled = TRUE, !.count = EnforcedRetryCount]
    ELSE userRetry

\* mergeConfig(): retry: requestConfig.retry || baseConfig.retry
MergeConfigRetry(baseRetry, requestRetry, requestHasRetry) ==
    IF requestHasRetry THEN requestRetry ELSE baseRetry

\* defaultConfig.retry of the constructor, its absent fields as
\* getRetryConfig() reads them (delay ?? 1000, maxRetry ?? 30000, ...)
DefaultRetry ==
    [enabled |-> TRUE, count |-> 5, delay |-> 1000, exponentialBackoff |-> TRUE,
     maxRetry |-> 30000]

\* config.retry as Voxa.request hands it to dispatchRequest: the retry
\* options of the instance, unless the request carries its own
DispatchedRetry ==
    MergeConfigRetry(VoxaConstructorRetry(IF source = "instance" THEN given
                                          ELSE DefaultRetry),
                     given, source = "request")

\* const effectiveSignal = signal || abortController.signal; effectiveSignal.aborted
EffectiveAborted == IF hasSignal THEN aborted ELSE timedOut

\* sleep(): function onAbort() { clearTimeout(timeout); reject(...) }
SleepTimerKeptOnAbort(armed) == armed
SleepTimerAfterAbort(armed) == FALSE

DelayValues == (0..MaxDelay) \cup {100}
MaxRetryValues == (0..MaxRetryCap) \cup {1000}

RetryIdle ==
    /\ given = [enabled |-> TRUE, count |-> 0, delay |-> 0,
                exponentialBackoff |-> TRUE, maxRetry |-> 0]
    /\ source = "request"
    /\ urlOk = TRUE
    /\ hasSignal = FALSE
    /\ retry = given
    /\ retryConfig = retry
    /\ pc = "idle"
    /\ attempt = 0
    /\ waitTime = 0
    /\ fetches = 0
    /\ sleeps = <<>>
    /\ lastOutcome = "none"
    /\ aborted = FALSE
    /\ timerArmed = FALSE
    /\ timedOut = FALSE
    /\ sleepTimerArmed = FALSE
    /\ sleepSettled = 0
    /\ abortedIn = "never"
    /\ fetchesAtAbort = 0
    /\ allRetryable = TRUE
    /\ allStatus = TRUE

RetryInit ==
    /\ given \in [enabled : BOOLEAN, count : 0..MaxCount, delay : DelayValues,
                  exponentialBackoff : BOOLEAN, maxRetry : MaxRetryValues]
    /\ source \in {"instance", "request"}
    /\ urlOk \in BOOLEAN
    /\ hasSignal \in BOOLEAN
    /\ retry = given
    /\ retryConfig = retry
    /\ pc = "idle"
    /\ attempt = 0
    /\ waitTime = 0
    /\ fetches = 0
    /\ sleeps = <<>>
    /\ lastOutcome = "none"
    /\ aborted = FALSE
    /\ timerArmed = FALSE
    /\ timedOut = FALSE
    /\ sleepTimerArmed = FALSE
    /\ sleepSettled = 0
    /\ abortedIn = "never"
    /\ fetchesAtAbort = 0
    /\ allRetryable = TRUE
    /\ allStatus = TRUE

\* the inputs of the call and the history of the caller's abort
retryInputs == <<given, source, urlOk, hasSignal>>
abortHistory == <<aborted, abortedIn, fetchesAtAbort>>

\* Voxa.request calls dispatchRequest(): new RetryManager(config.retry)
\* .getRetryConfig(), then the first turn of the loop (maxAttempts = count + 1 >= 1)
Dispatch ==
    /\ pc = "idle"
    /\ retry' = DispatchedRetry
    /\ retryConfig' = GetRetryConfig(DispatchedRetry)
    /\ attempt' = 0
    /\ pc' = "attempt"
    /\ UNCHANGED <<waitTime, fetches, sleeps, lastOutcome, timerArmed, timedOut,
                   sleepTimerArmed, sleepSettled, allRetryable, allStatus>>
    /\ UNCHANGED <<retryInputs, abortHistory>>
    /\ UNCHANGED notRetry

\* throw error: dispatchRequest rejects with the error o
Throw(o) ==
    /\ pc' = "thrown"
    /\ lastOutcome' = o
    /\ UNCHANGED <<waitTime, sleeps, sleepTimerArmed, sleepSettled>>

\* return response: dispatchRequest resolves with the response o
Return(o) ==
    /\ pc' = SettleKind(o)
    /\ lastOutcome' = o
    /\ UNCHANGED <<waitTime, sleeps, sleepTimerArmed, sleepSettled>>

\* waitTime = calculateRetryDelay(...); await retryManager.sleep(waitTime, effectiveSignal)
Sleep(o) ==
    LET w == CalculateRetryDelay(attempt, retryConfig.delay,
                 retryConfig.exponentialBackoff, retryConfig.maxRetry) IN
    /\ waitTime' = w
    /\ IF EffectiveAborted
       THEN \* sleep(): if (signal?.aborted) return reject(...); the catch
            \* block of the loop rethrows it
            /\ pc' = "thrown"
            /\ lastOutcome' = "abort"
            /\ sleepTimerArmed' = FALSE
            /\ sleepSettled' = 1
            /\ UNCHANGED sleeps
       ELSE /\ pc' = "sleep"
            /\ lastOutcome' = o
            /\ sleeps' = Append(sleeps, w)
            /\ sleepTimerArmed' = TRUE
            /\ sleepSettled' = 0

\* the catch block for the error o, after clearTimeout(timeoutId)
Caught(o) ==
    IF EffectiveAborted THEN Throw(o)
    ELSE IF IsRetryable(o) /\ attempt < retryConfig.count THEN Sleep(o)
    ELSE Throw(o)

\* the response o is in hand and not blocked: the status check and the return
Respond(o) ==
    IF o = "retryStatus" /\ attempt < retryConfig.count
    THEN Sleep(o)
    ELSE Return(o)

\* what the history keeps of the attempt that has just ended
Recorded ==
    /\ allRetryable' = (allRetryable /\ lastOutcome' \in {"retryStatus", "typeError"})
    /\ allStatus' = (allStatus /\ lastOutcome' = "retryStatus")

\* the top of the loop body: the attempt's timer is armed, the signal and the
\* syntax of the URL are checked, isPrivateIp(url) is awaited
StartAttempt ==
    /\ pc = "attempt"
    /\ timedOut' = FALSE
    /\ IF hasSignal /\ aborted
       THEN \* throw new DOMException('Aborted', 'AbortError')
            /\ timerArmed' = FALSE
            /\ Throw("abort")
            /\ Recorded
       ELSE IF ~urlOk
       THEN \* throw new Error('Blocked: Invalid or malformed URL')
            /\ timerArmed' = FALSE
            /\ Caught("blockedMalformed")
            /\ Recorded
       ELSE /\ pc' = "validate"
            /\ timerArmed' = TRUE
            /\ UNCHANGED <<lastOutcome, waitTime, sleeps, sleepTimerArmed,
                           sleepSettled, allRetryable, allStatus>>
    /\ UNCHANGED <<retry, retryConfig, attempt, fetches>>
    /\ UNCHANGED <<retryInputs, abortHistory>>
    /\ UNCHANGED notRetry

\* isPrivateIp(url) answers; a public target is fetched with the effective signal
Validate(private) ==
    /\ pc = "validate"
    /\ IF private
       THEN \* throw new Error('Blocked: SSRF attempt to private IP')
            /\ timerArmed' = FALSE
            /\ Caught("blockedPrivate")
            /\ Recorded
            /\ UNCHANGED fetches
       ELSE IF EffectiveAborted
       THEN \* fetch() with an aborted signal rejects at once, nothing is sent
            /\ timerArmed' = FALSE
            /\ Caught(IF hasSignal THEN "abort" ELSE "timeout")
            /\ Recorded
            /\ UNCHANGED fetches
       ELSE /\ pc' = "fetching"
            /\ fetches' = fetches + 1
            /\ UNCHANGED <<lastOutcome, timerArmed, waitTime, sleeps,
                           sleepTimerArmed, sleepSettled, allRetryable, allStatus>>
    /\ UNCHANGED <<retry, retryConfig, attempt, timedOut>>
    /\ UNCHANGED <<retryInputs, abortHistory>>
    /\ UNCHANGED notRetry

\* the fetch of the attempt settles with o: clearTimeout(timeoutId), then the
\* rest of the loop body up to its next await, its return or its throw
Attempt(o) ==
    /\ pc = "fetching"
    /\ timerArmed' = FALSE
    /\ IF o = "redirected"
       THEN /\ pc' = "checkRedirect"
            /\ UNCHANGED <<lastOutcome, waitTime, sleeps, sleepTimerArmed,
                           sleepSettled, allRetryable, allStatus>>
       ELSE /\ IF o \in ResponseKinds THEN Respond(o) ELSE Caught(o)
            /\ Recorded
    /\ UNCHANGED <<retry, retryConfig, attempt, fetches, timedOut>>
    /\ UNCHANGED <<retryInputs, abortHistory>>
    /\ UNCHANGED notRetry

\* isPrivateIp(response.url) answers for a redirected response o
CheckRedirect(private, o) ==
    /\ pc = "checkRedirect"
    /\ IF private
       THEN \* throw new Error('Blocked: Redirect to private IP')
            Caught("blockedRedirect")
       ELSE Respond(o)
    /\ Recorded
    /\ UNCHANGED <<retry, retryConfig, attempt, fetches, timerArmed, timedOut>>
    /\ UNCHANGED <<retryInputs, abortHistory>>
    /\ UNCHANGED notRetry

\* the attempt's timer fires: abortController.abort(). The fetch listens to
\* abortController.signal only when the caller passed no signal.
TimeoutFires ==
    /\ timerArmed
    /\ pc \in {"validate", "fetching"}
    /\ timerArmed' = FALSE
    /\ timedOut' = TRUE
    /\ IF pc = "fetching" /\ ~hasSignal
       THEN \* fetch rejects with AbortError; catch: effectiveSignal.aborted, throw
            /\ Throw("timeout")
            /\ Recorded
       ELSE UNCHANGED <<lastOutcome, pc, allRetryable, allStatus, waitTime,
                        sleeps, sleepTimerArmed, sleepSettled>>
    /\ UNCHANGED <<retry, retryConfig, attempt, fetches>>
    /\ UNCHANGED <<retryInputs, abortHistory>>
    /\ UNCHANGED notRetry

\* the caller aborts its signal: a pending sleep rejects (onAbort), a fetch in
\* flight rejects with AbortError and the catch block rethrows it
CallerAbort ==
    /\ hasSignal
    /\ ~aborted
    /\ aborted' = TRUE
    /\ abortedIn' = pc
    /\ fetchesAtAbort' = fetches
    /\ IF pc = "sleep"
       THEN /\ sleepTimerArmed' = SleepTimerAfterAbort(sleepTimerArmed)
            /\ sleepSettled' = sleepSettled + 1
            /\ lastOutcome' = "abort"
            /\ pc' = "thrown"
            /\ Recorded
            /\ UNCHANGED timerArmed
       ELSE IF pc = "fetching"
       THEN /\ timerArmed' = FALSE
            /\ lastOutcome' = "abort"
            /\ pc' = "thrown"
            /\ Recorded
            /\ UNCHANGED <<sleepTimerArmed, sleepSettled>>
       ELSE UNCHANGED <<pc, lastOutcome, timerArmed, sleepTimerArmed,
                        sleepSettled, allRetryable, allStatus>>
    /\ UNCHANGED <<retry, retryConfig, attempt, waitTime, fetches, sleeps, timedOut>>
    /\ UNCHANGED retryInputs
    /\ UNCHANGED notRetry

\* the timer of retryManager.sleep fires: the listener is removed, the promise
\* resolves and the loop continues with the next attempt
SleepDone ==
    /\ sleepTimerArmed
    /\ sleepTimerArmed' = FALSE
    /\ sleepSettled' = sleepSettled + 1
    /\ IF pc = "sleep"
       THEN /\ attempt' = attempt + 1
            /\ pc' = "attempt"
       ELSE UNCHANGED <<attempt, pc>>
    /\ UNCHANGED <<retry, retryConfig, waitTime, fetches, sleeps, lastOutcome,
                   timerArmed, timedOut, allRetryable, allStatus>>
    /\ UNCHANGED <<retryInputs, abortHistory>>
    /\ UNCHANGED notRetry

(***************************************************************************)
(* Voxa.request and DeduplicationManager                                   *)
(***************************************************************************)
Callers == 1..MaxCallers
Keys == 1..MaxKeys      \* generateKey(method, endpoint, data) of the triples requested
SettledValues == {"response", "error"}

\* an error is its cause chain: the error itself, then its cause, and so on
DispatchError == <<"dispatchRequest error">>
InterceptorError == <<"response interceptor error">>
NoError == <<>>

\* the inner catch blocks: new Error(`[...] ${category}: ${message}`), no cause
WrapInner(err, label, classifier) == IF classifier THEN <<label>> ELSE err
\* the final catch: new Error(`[Voxa Error] ...`, { cause: err })
WrapFinal(err, classifier) == IF classifier THEN <<"[Voxa Error]">> \o err ELSE err

NoSurfaced == [classifier |-> FALSE, original |-> NoError, chain |-> NoError]

ClientIdle ==
    /\ calls = [c \in Callers |->
                  [pc |-> "idle", key |-> 0, leader |-> 0, dispatched |-> FALSE,
                   value |-> "none"]]
    /\ dispatching = [k \in Keys |-> 0]
    /\ metadata = {}
    /\ errorsEnabled = FALSE
    /\ errorClassifier = FALSE
    /\ surfaced = [c \in Callers |-> NoSurfaced]

\* new Voxa(config): the classifier is installed later, when its import resolves
ClientInit ==
    /\ calls = [c \in Callers |->
                  [pc |-> "idle", key |-> 0, leader |-> 0, dispatched |-> FALSE,
                   value |-> "none"]]
    /\ dispatching = [k \in Keys |-> 0]
    /\ metadata = {}
    /\ errorsEnabled \in BOOLEAN
    /\ errorClassifier = FALSE
    /\ surfaced = [c \in Callers |-> NoSurfaced]

\* import('../features/errors/classifier.js').then(...) runs
ClassifierLoaded ==
    /\ errorsEnabled
    /\ ~errorClassifier
    /\ errorClassifier' = TRUE
    /\ UNCHANGED <<calls, dispatching, metadata, errorsEnabled, surfaced>>
    /\ UNCHANGED notClient

\* the call in flight that was the first to ask for key k, 0 if there is none
LeaderOf(k) ==
    IF \E c \in Callers : calls[c].pc = "inflight" /\ calls[c].key = k
                          /\ calls[c].leader = c
    THEN CHOOSE c \in Callers : calls[c].pc = "inflight" /\ calls[c].key = k
                                /\ calls[c].leader = c
    ELSE 0

\* Voxa.request(method, endpoint, data, config) up to its call of
\* dispatchRequest: the metadata is stored, this.errorClassifier is read, the
\* (empty) request interceptor chain runs, dispatchRequest is called. Neither
\* the deduplication manager nor the cache manager is consulted.
Request(c, k) ==
    /\ calls[c].pc = "idle"
    /\ metadata' = metadata \cup {c}
    /\ dispatching' = [dispatching EXCEPT ![k] = @ + 1]
    /\ calls' = [calls EXCEPT ![c] =
           [pc |-> "inflight", key |-> k,
            leader |-> IF LeaderOf(k) = 0 THEN c ELSE LeaderOf(k),
            dispatched |-> TRUE, value |-> "none"]]
    /\ surfaced' = [surfaced EXCEPT ![c] = [NoSurfaced EXCEPT !.classifier = errorClassifier]]
    /\ UNCHANGED <<errorsEnabled, errorClassifier>>
    /\ UNCHANGED notClient

\* the caller's dispatchRequest settles with its own response or error, and
\* request() returns or throws it
Settle(c, v) ==
    /\ calls[c].pc = "inflight"
    /\ dispatching' = [dispatching EXCEPT ![calls[c].key] = @ - 1]
    /\ calls' = [calls EXCEPT ![c].pc = "settled", ![c].value = v]
    /\ surfaced' = [surfaced EXCEPT ![c] =
           IF v = "error"
           THEN [classifier |-> surfaced[c].classifier,
                 original |-> DispatchError,
                 chain |-> WrapFinal(WrapInner(DispatchError, "[Network Error]",
                                               surfaced[c].classifier),
                                     surfaced[c].classifier)]
           ELSE surfaced[c]]
    /\ UNCHANGED <<metadata, errorsEnabled, errorClassifier>>
    /\ UNCHANGED notClient

\* dispatchRequest returned a response and a response interceptor without an
\* error handler throws: request() throws
InterceptorThrows(c) ==
    /\ calls[c].pc = "inflight"
    /\ dispatching' = [dispatching EXCEPT ![calls[c].key] = @ - 1]
    /\ calls' = [calls EXCEPT ![c].pc = "settled", ![c].value = "error"]
    /\ surfaced' = [surfaced EXCEPT ![c] =
           [classifier |-> surfaced[c].classifier,
            original |-> InterceptorError,
            chain |-> WrapFinal(WrapInner(InterceptorError, "[Response Interceptor Error]",
                                          surfaced[c].classifier),
                                surfaced[c].classifier)]]
    /\ UNCHANGED <<metadata, errorsEnabled, errorClassifier>>
    /\ UNCHANGED notClient

(***************************************************************************)
(* SafetyGuard: security.ts (isPrivateIp, filterHeaders) as dispatchRequest *)
(* uses it in every attempt                                                *)
(***************************************************************************)

\* an IP address as text: whether it contains ':', and the numbers of its
\* parts: the octets of a dotted quad, or the groups of ip.split(':') (an
\* empty group, as '::' leaves them, pads to '0000', the number 0)
V4(a, b, c, d) == [colon |-> FALSE, parts |-> <<a, b, c, d>>]
V6(groups) == [colon |-> TRUE, parts |-> groups]

\* const privateRanges = [...]: fc00 = 64512, fdff = 65023, fe80 = 65152,
\* febf = 65215, ffff = 65535
PrivateRanges ==
    << <<V4(10, 0, 0, 0), V4(10, 255, 255, 255)>>,
       <<V4(172, 16, 0, 0), V4(172, 31, 255, 255)>>,
       <<V4(192, 168, 0, 0), V4(192, 168, 255, 255)>>,
       <<V4(127, 0, 0, 0), V4(127, 255, 255, 255)>>,
       <<V6(<<0, 0, 1>>), V6(<<0, 0, 1>>)>>,
       <<V6(<<64512, 0, 0>>),
         V6(<<65023, 65535, 65535, 65535, 65535, 65535, 65535, 65535>>)>>,
       <<V6(<<65152, 0, 0>>),
         V6(<<65215, 65535, 65535, 65535, 65535, 65535, 65535, 65535>>)>> >>

\* a bigint is kept as its base-256 digits, most significant first
RECURSIVE GroupBytes(_)
GroupBytes(groups) ==
    IF groups = <<>> THEN <<>>
    ELSE <<Head(groups) \div 256, Head(groups) % 256>> \o GroupBytes(Tail(groups))

\* ipToLong(): the padded groups joined and read as one hexadecimal number,
\* or the octets folded by (acc << 8n) + BigInt(octet)
IpToLong(ip) == IF ip.colon THEN GroupBytes(ip.parts) ELSE ip.parts

RECURSIVE StripZeros(_)
StripZeros(digits) ==
    IF digits # <<>> /\ Head(digits) = 0 THEN StripZeros(Tail(digits)) ELSE digits

RECURSIVE LexLeq(_, _)
LexLeq(x, y) ==
    IF x = <<>> THEN TRUE
    ELSE IF Head(x) # Head(y) THEN Head(x) < Head(y)
    ELSE LexLeq(Tail(x), Tail(y))

\* x <= y on bigints
BigLeq(x, y) ==
    LET a == StripZeros(x)
        b == StripZeros(y)
    IN  Len(a) < Len(b) \/ (Len(a) = Len(b) /\ LexLeq(a, b))

\* inRange(): ipLong >= ipToLong(start) && ipLong <= ipToLong(end)
InRange(ip, start, end) ==
    BigLeq(IpToLong(start), IpToLong(ip)) /\ BigLeq(IpToLong(ip), IpToLong(end))

\* privateRanges.some(([start, end]) => inRange(ip, start, end))
InPrivateRanges(ip) ==
    \E i \in 1..Len(PrivateRanges) : InRange(ip, PrivateRanges[i][1], PrivateRanges[i][2])

\* the targets tried: dotted quads around the edges of the ranges, IPv6
\* literals (url.hostname keeps their brackets), a DNS name, and a string
\* that is no URL
FirstOctets == {0, 8, 10, 11, 127, 169, 172, 192}
SecondOctets == {0, 15, 16, 31, 32, 168, 254}
LowOctets == {<<0, 1>>, <<169, 254>>}
Loopback6 == V6(<<0, 0, 1>>)                \* ::1
UniqueLocal6 == V6(<<64768, 0, 1>>)         \* fd00::1
LinkLocal6 == V6(<<65152, 0, 1>>)           \* fe80::1
Public6 == V6(<<8193, 3512, 0, 1>>)         \* 2001:db8::1
NoAddress == [colon |-> FALSE, parts |-> <<>>]
Hosts ==
    {[form |-> "v4", addr |-> V4(a, b, lo[1], lo[2])] :
        a \in FirstOctets, b \in SecondOctets, lo \in LowOctets}
    \cup {[form |-> "bracketed6", addr |-> x] :
            x \in {Loopback6, UniqueLocal6, LinkLocal6, Public6}}
    \cup {[form |-> "name", addr |-> NoAddress]}
    \cup {[form |-> "malformed", addr |-> NoAddress]}

\* isValidUrl(): whether new URL(urlStr) parses
IsValidUrl(h) == h.form # "malformed"

\* net.isIP(host): 4 for a dotted quad, 0 for a name and for an IPv6 literal
\* in brackets
NetIsIP(h) == IF h.form = "v4" THEN 4 ELSE 0

\* dns.lookup(host, { all: true }): it throws, or it answers some addresses;
\* a bracketed literal is no hostname, its lookup throws
NoLookup == [ok |-> FALSE, addresses |-> {}]
ResolvedSamples ==
    {V4(127, 0, 0, 1), V4(169, 254, 169, 254), V4(8, 8, 8, 8), Loopback6, Public6}
LookupAnswers ==
    {NoLookup} \cup
    {[ok |-> TRUE, addresses |-> S] :
        S \in {T \in SUBSET ResolvedSamples : Cardinality(T) \in 1..2}}
LookupOutcomes(h) == IF h.form = "name" THEN LookupAnswers ELSE {NoLookup}

\* isPrivateIp(): the literal is compared with the ranges, a name is resolved
\* first; the catch block answers false
IsPrivateIp(h, l) ==
    IF NetIsIP(h) # 0 THEN InPrivateRanges(h.addr)
    ELSE IF ~l.ok THEN FALSE
    ELSE \E a \in l.addresses : InPrivateRanges(a)

\* header names as the caller may write them, and String.prototype.toLowerCase
HeaderNames ==
    {"Cookie", "Set-Cookie", "AUTHORIZATION", "content-type", "X-Api-Key", "X-Custom"}
HeaderValues == {"v1", "v2"}
ToLowerCase(k) ==
    CASE k = "Cookie" -> "cookie"
      [] k = "Set-Cookie" -> "set-cookie"
      [] k = "AUTHORIZATION" -> "authorization"
      [] k = "content-type" -> "content-type"
      [] k = "X-Api-Key" -> "x-api-key"
      [] k = "X-Custom" -> "x-custom"

\* const SAFE_HEADERS = [...]
SAFE_HEADERS ==
    {"accept", "accept-language", "content-type", "content-length", "user-agent",
     "authorization", "x-requested-with", "x-api-key", "x-xsrf-token"}

HeaderMaps == UNION {[D -> HeaderValues] : D \in SUBSET HeaderNames}

\* filterHeaders(): out[k] = v for the entries with SAFE_HEADERS.includes(k.toLowerCase())
FilterHeadersCaseSensitive(h) ==
    [k \in {n \in DOMAIN h : n \in SAFE_HEADERS} |-> h[k]]
FilterHeaders(h) ==
    [k \in {n \in DOMAIN h : ToLowerCase(n) \in SAFE_HEADERS} |-> h[k]]

GuardIdle ==
    /\ host = [form |-> "name", addr |-> NoAddress]
    /\ headers = <<>>
    /\ lookup = NoLookup
    /\ guardPc = "attempt"
    /\ guardAttempt = 0
    /\ isPrivate = FALSE
    /\ sentHeaders = <<>>
    /\ guardFetches = 0
    /\ checkedAttempt = -1

GuardInit ==
    /\ host \in Hosts
    /\ headers \in HeaderMaps
    /\ lookup = NoLookup
    /\ guardPc = "attempt"
    /\ guardAttempt = 0
    /\ isPrivate = FALSE
    /\ sentHeaders = <<>>
    /\ guardFetches = 0
    /\ checkedAttempt = -1

\* if (!isValidUrl(url)) throw ...; if (await isPrivateIp(url)) throw ...
GuardCheck(l) ==
    /\ guardPc = "attempt"
    /\ l \in LookupOutcomes(host)
    /\ IF ~IsValidUrl(host)
       THEN /\ guardPc' = "blocked"
            /\ UNCHANGED <<lookup, isPrivate, checkedAttempt>>
       ELSE /\ lookup' = l
            /\ isPrivate' = IsPrivateIp(host, l)
            /\ guardPc' = IF IsPrivateIp(host, l) THEN "blocked" ELSE "checked"
            /\ checkedAttempt' = IF IsPrivateIp(host, l) THEN checkedAttempt
                                 ELSE guardAttempt
    /\ UNCHANGED <<host, headers, guardAttempt, sentHeaders, guardFetches>>
    /\ UNCHANGED notGuard

\* const safeHeaders = filterHeaders(config.headers); fetch(url, { headers: safeHeaders, ... })
GuardFetch ==
    /\ guardPc = "checked"
    /\ sentHeaders' = FilterHeaders(headers)
    /\ guardFetches' = guardFetches + 1
    /\ guardPc' = "fetched"
    /\ UNCHANGED <<host, headers, lookup, guardAttempt, isPrivate, checkedAttempt>>
    /\ UNCHANGED notGuard

\* continue: where the next turn of the for loop begins, at the top of its
\* try block, before the two URL checks
NextTurnAfterChecks == "checked"
NextTurn == "attempt"

\* the attempt failed retryably and its backoff is over: the next turn of the loop
GuardRetry ==
    /\ guardPc = "fetched"
    /\ guardAttempt < MaxGuardAttempts
    /\ guardAttempt' = guardAttempt + 1
    /\ guardPc' = NextTurn
    /\ UNCHANGED <<host, headers, lookup, isPrivate, sentHeaders, guardFetches,
                   checkedAttempt>>
    /\ UNCHANGED notGuard

(***************************************************************************)
(* RateLimiter (queue/manager.ts)                                          *)
(***************************************************************************)

\* requestTimestamps.filter(ts => now - ts < perMilliseconds), on ages
InWindowNever(age, per) == FALSE
InWindowAlways(age, per) == TRUE
InWindow(age, per) == age < per

RECURSIVE FilterWindow(_, _)
FilterWindow(ages, per) ==
    IF ages = <<>> THEN <<>>
    ELSE IF InWindow(Head(ages), per)
         THEN <<Head(ages)>> \o FilterWindow(Tail(ages), per)
         ELSE FilterWindow(Tail(ages), per)

\* while (this.queue.length > 0 && this.requestTimestamps.length < maxRequests)
RateUnderLimitOrAt(n, max) == n <= max
RateUnderLimit(n, max) == n < max

\* the while loop of processQueue(): each task shifted gets the timestamp now
\* (age 0) and its fn() is called
RECURSIVE RateDispatch(_, _, _, _)
RateDispatch(q, ts, max, started) ==
    IF Len(q) > 0 /\ RateUnderLimit(Len(ts), max)
    THEN RateDispatch(Tail(q), Append(ts, 0), max, Append(started, Head(q)))
    ELSE [queue |-> q, timestamps |-> ts, started |-> started]

\* processQueue() for the queue q: yields the queue left, the timestamps, the
\* tasks started and whether this.timer is set afterwards
RateProcessQueue(q, ts, max, per, timerSet) ==
    LET d == RateDispatch(q, FilterWindow(ts, per), max, <<>>) IN
    [queue |-> d.queue, timestamps |-> d.timestamps, started |-> d.started,
     timer |-> (timerSet \/ Len(d.queue) > 0),
     armed |-> (Len(d.queue) > 0 /\ ~timerSet)]

RateIdle ==
    /\ rateEnabled = FALSE
    /\ maxRequests = 1
    /\ perMilliseconds = 0
    /\ requestTimestamps = <<>>
    /\ rateQueue = <<>>
    /\ timer = FALSE
    /\ timerAge = 0
    /\ nextTask = 1
    /\ rateRunning = {}
    /\ rateSettled = [i \in 1..MaxRateTasks |-> "none"]
    /\ dispatchAge = [i \in 1..MaxRateTasks |-> -1]
    /\ waited = {}

RateInit ==
    /\ rateEnabled \in BOOLEAN
    /\ maxRequests \in 1..MaxRateRequests
    /\ perMilliseconds \in 0..MaxPer
    /\ requestTimestamps = <<>>
    /\ rateQueue = <<>>
    /\ timer = FALSE
    /\ timerAge = 0
    /\ nextTask = 1
    /\ rateRunning = {}
    /\ rateSettled = [i \in 1..MaxRateTasks |-> "none"]
    /\ dispatchAge = [i \in 1..MaxRateTasks |-> -1]
    /\ waited = {}

rateConfig == <<rateEnabled, maxRequests, perMilliseconds>>

\* the state after processQueue() answered p
RateProcessed(p) ==
    /\ rateQueue' = p.queue
    /\ requestTimestamps' = p.timestamps
    /\ timer' = p.timer
    /\ timerAge' = IF p.armed THEN 0 ELSE timerAge
    /\ rateRunning' = rateRunning \cup SeqRange(p.started)
    /\ dispatchAge' = [i \in 1..MaxRateTasks |->
                          IF i \in SeqRange(p.started) THEN 0 ELSE dispatchAge[i]]

\* enqueue(fn, requestId)
RateEnqueue ==
    /\ nextTask <= MaxRateTasks
    /\ nextTask' = nextTask + 1
    /\ rateSettled' = [rateSettled EXCEPT ![nextTask] = "pending"]
    /\ IF ~rateEnabled
       THEN \* return fn()
            /\ rateRunning' = rateRunning \cup {nextTask}
            /\ dispatchAge' = [dispatchAge EXCEPT ![nextTask] = 0]
            /\ UNCHANGED <<rateQueue, requestTimestamps, timer, timerAge, waited>>
       ELSE \* this.queue.push(...); this.processQueue()
            LET p == RateProcessQueue(Append(rateQueue, nextTask), requestTimestamps,
                                      maxRequests, perMilliseconds, timer) IN
            /\ RateProcessed(p)
            /\ waited' = IF nextTask \in SeqRange(p.queue)
                         THEN waited \cup {nextTask} ELSE waited
    /\ UNCHANGED rateConfig
    /\ UNCHANGED notRate

\* the poll timer fires: this.timer = null; this.processQueue()
RateTimerFires ==
    /\ timer
    /\ timerAge >= PollTicks
    /\ LET p == RateProcessQueue(rateQueue, requestTimestamps, maxRequests,
                                 perMilliseconds, FALSE) IN
       RateProcessed(p)
    /\ UNCHANGED <<nextTask, rateSettled, waited>>
    /\ UNCHANGED rateConfig
    /\ UNCHANGED notRate

\* the fn() of a dispatched task settles: req.fn().then(req.resolve).catch(req.reject)
RateSettle(i, ok) ==
    /\ i \in rateRunning
    /\ rateRunning' = rateRunning \ {i}
    /\ rateSettled' = [rateSettled EXCEPT ![i] = IF ok THEN "resolved" ELSE "rejected"]
    /\ UNCHANGED <<requestTimestamps, rateQueue, timer, timerAge, nextTask,
                   dispatchAge, waited>>
    /\ UNCHANGED rateConfig
    /\ UNCHANGED notRate

\* one poll interval of time passes: Date.now() grows by 100
Older(age) == IF age < perMilliseconds THEN age + 1 ELSE age
RateTick ==
    /\ requestTimestamps' = [k \in 1..Len(requestTimestamps) |->
                                Older(requestTimestamps[k])]
    /\ dispatchAge' = [i \in 1..MaxRateTasks |->
                          IF dispatchAge[i] = -1 THEN -1 ELSE Older(dispatchAge[i])]
    /\ timerAge' = IF timer /\ timerAge < PollTicks THEN timerAge + 1 ELSE timerAge
    /\ UNCHANGED <<rateQueue, timer, nextTask, rateRunning, rateSettled, waited>>
    /\ UNCHANGED rateConfig
    /\ UNCHANGED notRate

(***************************************************************************)
(* CacheManager and FileStorage (cache/manager.ts, cache/file-storage.ts)  *)
(***************************************************************************)

Storages == {"memory", "file", "custom"}
CacheKeys == 1..MaxCacheKeys

\* the responses handed to set(): a status and a body text
CachedResponses == {[status |-> 200, text |-> "a"], [status |-> 404, text |-> "b"]}

\* a body as the caller reads it: the text of the stored response, or the JSON
\* text of the stored record {body, status, statusText, headers}
PlainBody(text) == [envelope |-> FALSE, text |-> text, status |-> 0]
JsonOfStoredResponse(text, status) == [envelope |-> TRUE, text |-> text, status |-> status]

NoEntry == [present |-> FALSE, status |-> 0, text |-> "", expiresAt |-> 0,
            storeExpiresAt |-> 0]

\* const cacheTTL = ttl || this.config.ttl || 300000   (0 is falsy)
CacheTTL(ttl) ==
    IF ttl # 0 THEN ttl ELSE IF configTtl # 0 THEN configTtl ELSE DefaultTtl

\* Math.ceil(cacheTTL / 1000), the seconds handed to the store, back in units
TtlSeconds(cacheTTL) == (cacheTTL + UnitsPerSecond - 1) \div UnitsPerSecond
StoreExpiry(now, cacheTTL) == now + TtlSeconds(cacheTTL) * UnitsPerSecond

\* isValid(entry): Date.now() < entry.expiresAt
IsValid(entry, now) == now < entry.expiresAt

\* FileStorage.get: parsed.expiresAt && Date.now() > parsed.expiresAt
FileExpired(entry, now) == entry.storeExpiresAt # 0 /\ now > entry.storeExpiresAt

\* the Response a hit returns: entry.response.clone() from memory; from a
\* file or an adapter new Response(JSON.stringify(entry.response), {status: 200})
HitResponse(storage, entry) ==
    IF storage = "memory"
    THEN [status |-> entry.status, body |-> PlainBody(entry.text)]
    ELSE [status |-> HitStatus, body |-> JsonOfStoredResponse(entry.text, entry.status)]

NoGet == [n |-> 0, key |-> 1, hit |-> FALSE, status |-> 0, body |-> PlainBody(""),
          stored |-> NoEntry]
Miss(previous, k) == [NoGet EXCEPT !.n = 1 - previous.n, !.key = k]
Hit(previous, k, storage, entry) ==
    [n |-> 1 - previous.n, key |-> k, hit |-> TRUE,
     status |-> HitResponse(storage, entry).status,
     body |-> HitResponse(storage, entry).body, stored |-> entry]

NoSet == [live |-> FALSE, status |-> 0, text |-> "", expiresAt |-> 0]

CacheIdle ==
    /\ managers = {}
    /\ cacheEnabled = FALSE
    /\ configTtl = 0
    /\ cacheClock = 0
    /\ cacheStore = [b \in Storages |-> [k \in CacheKeys |-> NoEntry]]
    /\ evictionTimers = {}
    /\ staleGet = [b \in Storages |-> 0]
    /\ lastGet = [b \in Storages |-> NoGet]
    /\ latestSet = [k \in CacheKeys |-> NoSet]
    /\ timerSpared = FALSE

\* new CacheManager(config), one manager for each storage in ms
CacheManagers(ms) ==
    /\ managers = ms
    /\ cacheEnabled \in BOOLEAN
    /\ configTtl \in 0..MaxTtl
    /\ cacheClock = 0
    /\ cacheStore = [b \in Storages |-> [k \in CacheKeys |-> NoEntry]]
    /\ evictionTimers = {}
    /\ staleGet = [b \in Storages |-> 0]
    /\ lastGet = [b \in Storages |-> NoGet]
    /\ latestSet = [k \in CacheKeys |-> NoSet]
    /\ timerSpared = FALSE

CacheInit == CacheManagers(Storages)
MemoryCacheInit == CacheManagers({"memory"})

cacheConfig == <<managers, cacheEnabled, configTtl>>

\* the eviction callback: this.memoryCache.has(key) and !this.isValid(cachedEntry)
TimerEvictsAlways(entry, now) == entry.present
TimerEvicts(entry, now) == entry.present /\ ~IsValid(entry, now)

\* set(key, response, requestId, ttl); ttl = 0 also stands for an omitted ttl.
\* The writes of the file and of the adapter are taken at the time of the call.
CacheSet(k, r, ttl) ==
    /\ k \in CacheKeys
    /\ IF ~cacheEnabled
       THEN UNCHANGED <<cacheStore, evictionTimers, latestSet>>
       ELSE LET cacheTTL == CacheTTL(ttl)
                expiresAt == cacheClock + cacheTTL
                entry(b) == IF b \in managers
                            THEN [present |-> TRUE, status |-> r.status, text |-> r.text,
                                  expiresAt |-> expiresAt,
                                  storeExpiresAt |-> IF b = "memory" THEN 0
                                                     ELSE StoreExpiry(cacheClock, cacheTTL)]
                            ELSE cacheStore[b][k]
            IN /\ cacheStore' = [b \in Storages |-> [cacheStore[b] EXCEPT ![k] = entry(b)]]
               \* a timer due after the last modelled instant can never fire
               /\ evictionTimers' = IF expiresAt <= MaxCacheClock
                                    THEN evictionTimers \cup {[key |-> k, due |-> expiresAt]}
                                    ELSE evictionTimers
               /\ latestSet' = [latestSet EXCEPT ![k] =
                                   [live |-> TRUE, status |-> r.status, text |-> r.text,
                                    expiresAt |-> expiresAt]]
    /\ UNCHANGED <<timerSpared, cacheClock, staleGet, lastGet>>
    /\ UNCHANGED cacheConfig
    /\ UNCHANGED notCache

\* get(key) up to its first await that another call can overtake: the memory
\* cache answers at once; a file or adapter entry read as stale leaves the
\* call awaiting this.delete(key)
CacheGet(k) ==
    /\ k \in CacheKeys
    /\ \A b \in Storages : staleGet[b] = 0
    /\ IF ~cacheEnabled
       THEN /\ lastGet' = [b \in Storages |-> Miss(lastGet[b], k)]
            /\ UNCHANGED <<cacheStore, staleGet>>
       ELSE LET entry(b) == cacheStore[b][k]
                gone(b) == \/ ~entry(b).present
                           \/ b = "file" /\ FileExpired(entry(b), cacheClock)
                stale(b) == ~gone(b) /\ ~IsValid(entry(b), cacheClock)
            IN /\ lastGet' = [b \in Storages |->
                                 IF gone(b) THEN Miss(lastGet[b], k)
                                 ELSE IF stale(b)
                                      THEN IF b = "memory" THEN Miss(lastGet[b], k)
                                           ELSE lastGet[b]
                                      ELSE Hit(lastGet[b], k, b, entry(b))]
               /\ staleGet' = [b \in Storages |->
                                  IF stale(b) /\ b # "memory" THEN k ELSE 0]
               /\ cacheStore' = [b \in Storages |->
                                    IF entry(b).present /\ (gone(b) \/ (stale(b) /\ b = "memory"))
                                    THEN [cacheStore[b] EXCEPT ![k] = NoEntry]
                                    ELSE cacheStore[b]]
    /\ UNCHANGED <<timerSpared, cacheClock, evictionTimers, latestSet>>
    /\ UNCHANGED cacheConfig
    /\ UNCHANGED notCache

\* the rest of a get() that read a stale entry: await this.delete(key); return null
CacheGetDeletes(b) ==
    /\ b \in Storages
    /\ staleGet[b] # 0
    /\ cacheStore' = [cacheStore EXCEPT ![b][staleGet[b]] = NoEntry]
    /\ lastGet' = [lastGet EXCEPT ![b] = Miss(lastGet[b], staleGet[b])]
    /\ staleGet' = [staleGet EXCEPT ![b] = 0]
    /\ UNCHANGED <<timerSpared, cacheClock, evictionTimers, latestSet>>
    /\ UNCHANGED cacheConfig
    /\ UNCHANGED notCache

\* delete(key)
CacheDelete(k) ==
    /\ k \in CacheKeys
    /\ cacheStore' = [b \in Storages |-> [cacheStore[b] EXCEPT ![k] = NoEntry]]
    /\ latestSet' = [latestSet EXCEPT ![k] = NoSet]
    /\ UNCHANGED <<timerSpared, cacheClock, evictionTimers, staleGet, lastGet>>
    /\ UNCHANGED cacheConfig
    /\ UNCHANGED notCache

\* clear()
CacheClear ==
    /\ cacheStore' = [b \in Storages |-> [k \in CacheKeys |-> NoEntry]]
    /\ latestSet' = [k \in CacheKeys |-> NoSet]
    /\ UNCHANGED <<timerSpared, cacheClock, evictionTimers, staleGet, lastGet>>
    /\ UNCHANGED cacheConfig
    /\ UNCHANGED notCache

\* the callback armed by set() on the memory cache runs, at its due time or later
EvictionTimerFires(t) ==
    /\ t \in evictionTimers
    /\ cacheClock >= t.due
    /\ evictionTimers' = evictionTimers \ {t}
    /\ cacheStore' = IF TimerEvicts(cacheStore["memory"][t.key], cacheClock)
                     THEN [cacheStore EXCEPT !["memory"][t.key] = NoEntry]
                     ELSE cacheStore
    /\ timerSpared' = (timerSpared \/ (/\ cacheStore["memory"][t.key].present
                                       /\ cacheStore'["memory"][t.key].present))
    /\ UNCHANGED <<cacheClock, staleGet, lastGet, latestSet>>
    /\ UNCHANGED cacheConfig
    /\ UNCHANGED notCache

\* the custom adapter drops a record whose ttlSeconds have passed
AdapterExpires(k) ==
    /\ k \in CacheKeys
    /\ cacheStore["custom"][k].present
    /\ cacheClock >= cacheStore["custom"][k].storeExpiresAt
    /\ cacheStore' = [cacheStore EXCEPT !["custom"][k] = NoEntry]
    /\ UNCHANGED <<timerSpared, cacheClock, evictionTimers, staleGet, lastGet, latestSet>>
    /\ UNCHANGED cacheConfig
    /\ UNCHANGED notCache

\* half a second passes
CacheTick ==
    /\ cacheClock < MaxCacheClock
    /\ cacheClock' = cacheClock + 1
    /\ UNCHANGED <<timerSpared, cacheStore, evictionTimers, staleGet, lastGet, latestSet>>
    /\ UNCHANGED cacheConfig
    /\ UNCHANGED notCache

TimerKeys == [key : CacheKeys, due : 1..MaxCacheClock]

(***************************************************************************)
(* DeduplicationManager (features/deduplication)                           *)
(***************************************************************************)
Promises == 1..MaxPromises

NoPending == [present |-> FALSE, promise |-> 0, age |-> 0]
NoneReturned == [n |-> 0, key |-> 1, promise |-> 0, kind |-> "none"]

\* age >= this.TTL
IsExpiredPastTTL(age, ttl) == age > ttl
IsExpired(age, ttl) == age >= ttl

DedupIdle ==
    /\ dedupEnabled = FALSE
    /\ TTL = 0
    /\ pendingRequests = [k \in Keys |-> NoPending]
    /\ cleanupInterval = FALSE
    /\ promiseState = [p \in Promises |-> "none"]
    /\ nextPromise = 1
    /\ lastPending = NoneReturned

\* new DeduplicationManager(config): the sweep is scheduled if enabled
DedupInit ==
    /\ dedupEnabled \in BOOLEAN
    /\ TTL \in 0..MaxDedupTtl
    /\ pendingRequests = [k \in Keys |-> NoPending]
    /\ cleanupInterval = dedupEnabled
    /\ promiseState = [p \in Promises |-> "none"]
    /\ nextPromise = 1
    /\ lastPending = NoneReturned

dedupConfig == <<dedupEnabled, TTL>>

\* getPending(key)
GetPending(k) ==
    /\ k \in Keys
    /\ LET pending == pendingRequests[k]
           answer(kind, p) == [n |-> 1 - lastPending.n, key |-> k, promise |-> p,
                               kind |-> kind]
       IN IF ~dedupEnabled
          THEN /\ lastPending' = answer("disabled", 0)
               /\ UNCHANGED pendingRequests
          ELSE IF ~pending.present
          THEN /\ lastPending' = answer("absent", 0)
               /\ UNCHANGED pendingRequests
          ELSE IF IsExpired(pending.age, TTL)
          THEN /\ lastPending' = answer("expired", 0)
               /\ pendingRequests' = [pendingRequests EXCEPT ![k] = NoPending]
          ELSE /\ lastPending' = answer("hit", pending.promise)
               /\ UNCHANGED pendingRequests
    /\ UNCHANGED <<cleanupInterval, promiseState, nextPromise>>
    /\ UNCHANGED dedupConfig
    /\ UNCHANGED notDedup

\* setPending(key, promise) with a promise that has not settled yet
SetPending(k) ==
    /\ k \in Keys
    /\ nextPromise <= MaxPromises
    /\ nextPromise' = nextPromise + 1
    /\ promiseState' = [promiseState EXCEPT ![nextPromise] = "pending"]
    /\ pendingRequests' = IF dedupEnabled
                          THEN [pendingRequests EXCEPT ![k] =
                                   [present |-> TRUE, promise |-> nextPromise, age |-> 0]]
                          ELSE pendingRequests
    /\ UNCHANGED <<cleanupInterval, lastPending>>
    /\ UNCHANGED dedupConfig
    /\ UNCHANGED notDedup

\* removePending(key)
RemovePending(k) ==
    /\ k \in Keys
    /\ pendingRequests' = IF dedupEnabled
                          THEN [pendingRequests EXCEPT ![k] = NoPending]
                          ELSE pendingRequests
    /\ UNCHANGED <<cleanupInterval, promiseState, nextPromise, lastPending>>
    /\ UNCHANGED dedupConfig
    /\ UNCHANGED notDedup

\* the sweep of setInterval(() => this.cleanup(), 60000)
Cleanup ==
    /\ cleanupInterval
    /\ pendingRequests' =
          IF dedupEnabled
          THEN [k \in Keys |->
                   IF pendingRequests[k].present /\ IsExpired(pendingRequests[k].age, TTL)
                   THEN NoPending ELSE pendingRequests[k]]
          ELSE pendingRequests
    /\ UNCHANGED <<cleanupInterval, promiseState, nextPromise, lastPending>>
    /\ UNCHANGED dedupConfig
    /\ UNCHANGED notDedup

\* a registered promise resolves or rejects: the manager attached no handler to it
PromiseSettles(p, ok) ==
    /\ p \in Promises
    /\ promiseState[p] = "pending"
    /\ promiseState' = [promiseState EXCEPT ![p] = IF ok THEN "resolved" ELSE "rejected"]
    /\ UNCHANGED <<pendingRequests, cleanupInterval, nextPromise, lastPending>>
    /\ UNCHANGED dedupConfig
    /\ UNCHANGED notDedup

\* destroy()
DedupDestroy ==
    /\ cleanupInterval' = FALSE
    /\ pendingRequests' = [k \in Keys |-> NoPending]
    /\ UNCHANGED <<promiseState, nextPromise, lastPending>>
    /\ UNCHANGED dedupConfig
    /\ UNCHANGED notDedup

\* one tick of Date.now()
DedupTick ==
    /\ pendingRequests' = [k \in Keys |->
          IF pendingRequests[k].present /\ pendingRequests[k].age < TTL
          THEN [pendingRequests[k] EXCEPT !.age = @ + 1]
          ELSE pendingRequests[k]]
    /\ UNCHANGED <<cleanupInterval, promiseState, nextPromise, lastPending>>
    /\ UNCHANGED dedupConfig
    /\ UNCHANGED notDedup

(***************************************************************************)
(* BatchManager (features/batch/batch.ts)                                  *)
(***************************************************************************)
BatchIds == 1..MaxBatchRequests

\* this.requests.splice(0, this.config.maxBatchSize ?? this.requests.length):
\* the number of requests taken off the front
SpliceCount(max, len) == IF max = -1 THEN len ELSE Min(max, len)

BatchIdle ==
    /\ maxBatchSize = -1
    /\ batchRequests = <<>>
    /\ batchTimeout = FALSE
    /\ inFlight = {}
    /\ batchSettled = [i \in BatchIds |-> "none"]
    /\ nextBatchRequest = 1
    /\ batchSent = {}

\* new BatchManager(config)
BatchInit ==
    /\ maxBatchSize \in -1..MaxBatchSize
    /\ batchRequests = <<>>
    /\ batchTimeout = FALSE
    /\ inFlight = {}
    /\ batchSettled = [i \in BatchIds |-> "none"]
    /\ nextBatchRequest = 1
    /\ batchSent = {}

\* add(method, url, data, config): push, clearTimeout, setTimeout(execute, wait)
BatchAdd ==
    /\ nextBatchRequest <= MaxBatchRequests
    /\ batchRequests' = Append(batchRequests, nextBatchRequest)
    /\ batchSettled' = [batchSettled EXCEPT ![nextBatchRequest] = "pending"]
    /\ nextBatchRequest' = nextBatchRequest + 1
    /\ batchTimeout' = TRUE
    /\ UNCHANGED <<maxBatchSize, inFlight, batchSent>>
    /\ UNCHANGED notBatch

\* the timer fires: execute() up to its await of fetch()
BatchExecute ==
    /\ batchTimeout
    /\ batchTimeout' = FALSE
    /\ IF Len(batchRequests) = 0
       THEN UNCHANGED <<batchRequests, inFlight, batchSent>>
       ELSE LET n == SpliceCount(maxBatchSize, Len(batchRequests))
                batch == SubSeq(batchRequests, 1, n)
            IN /\ batchRequests' = SubSeq(batchRequests, n + 1, Len(batchRequests))
               /\ inFlight' = inFlight \cup {batch}
               /\ batchSent' = batchSent \cup SeqRange(batch)
    /\ UNCHANGED <<maxBatchSize, batchSettled, nextBatchRequest>>
    /\ UNCHANGED notBatch

\* the response is an array of n results: results.forEach resolves batch[index];
\* a result beyond the batch throws inside the try block and the catch block
\* rejects the requests of the batch, all of them resolved already
BatchResponds(batch, n) ==
    /\ batch \in inFlight
    /\ n \in 0..(Len(batch) + 1)
    /\ inFlight' = inFlight \ {batch}
    /\ batchSettled' = [i \in BatchIds |->
          IF /\ \E k \in 1..Min(n, Len(batch)) : batch[k] = i
             /\ batchSettled[i] = "pending"
          THEN "resolved" ELSE batchSettled[i]]
    /\ UNCHANGED <<maxBatchSize, batchRequests, batchTimeout, nextBatchRequest, batchSent>>
    /\ UNCHANGED notBatch

\* fetch() rejects or response.json() throws: batch.forEach(req => req.reject(...))
BatchFails(batch) ==
    /\ batch \in inFlight
    /\ inFlight' = inFlight \ {batch}
    /\ batchSettled' = [i \in BatchIds |->
          IF i \in SeqRange(batch) /\ batchSettled[i] = "pending"
          THEN "rejected" ELSE batchSettled[i]]
    /\ UNCHANGED <<maxBatchSize, batchRequests, batchTimeout, nextBatchRequest, batchSent>>
    /\ UNCHANGED notBatch

(***************************************************************************)
(* OfflineQueueManager (features/offline/offline.ts)                       *)
(***************************************************************************)
OfflineIds == 1..MaxOffline
Invocations == 1..MaxInvocations
Idle == [pc |-> "idle", req |-> 0]
Awaiting(r) == [pc |-> "awaiting", req |-> r]

OfflineIdle ==
    /\ offlineEnabled = FALSE
    /\ onLine = TRUE
    /\ offlineQueue = <<>>
    /\ invocations = [i \in Invocations |-> Idle]
    /\ offlineSent = [r \in OfflineIds |-> 0]
    /\ nextOffline = 1

\* new OfflineQueueManager(config) with nothing saved
OfflineInit ==
    /\ offlineEnabled \in BOOLEAN
    /\ onLine \in BOOLEAN
    /\ offlineQueue = <<>>
    /\ invocations = [i \in Invocations |-> Idle]
    /\ offlineSent = [r \in OfflineIds |-> 0]
    /\ nextOffline = 1

\* addRequest(method, url, data, config, requestId)
AddRequest ==
    /\ nextOffline <= MaxOffline
    /\ IF ~offlineEnabled
       THEN UNCHANGED <<offlineQueue, nextOffline>>
       ELSE /\ offlineQueue' = Append(offlineQueue, nextOffline)
            /\ nextOffline' = nextOffline + 1
    /\ UNCHANGED <<offlineEnabled, onLine, invocations, offlineSent>>
    /\ UNCHANGED notOffline

\* one turn of while (this.queue.length > 0): shift the head and await its
\* fetch, or leave the loop
LoopTurn(i) ==
    IF Len(offlineQueue) > 0
    THEN /\ invocations' = [invocations EXCEPT ![i] = Awaiting(Head(offlineQueue))]
         /\ offlineQueue' = Tail(offlineQueue)
    ELSE /\ invocations' = [invocations EXCEPT ![i] = Idle]
         /\ UNCHANGED offlineQueue

\* processQueue() is called (the online event or a caller), up to its first await
OfflineProcessQueue(i) ==
    /\ i \in Invocations
    /\ invocations[i].pc = "idle"
    /\ IF ~onLine \/ ~offlineEnabled
       THEN UNCHANGED <<offlineQueue, invocations>>
       ELSE LoopTurn(i)
    /\ UNCHANGED <<offlineEnabled, onLine, offlineSent, nextOffline>>
    /\ UNCHANGED notOffline

\* the fetch awaited by invocation i resolves: the loop goes on
FetchResolves(i) ==
    /\ i \in Invocations
    /\ invocations[i].pc = "awaiting"
    /\ offlineSent' = [offlineSent EXCEPT ![invocations[i].req] = @ + 1]
    /\ LoopTurn(i)
    /\ UNCHANGED <<offlineEnabled, onLine, nextOffline>>
    /\ UNCHANGED notOffline

\* the fetch awaited by invocation i rejects: this.queue.unshift(req); break
FetchRejects(i) ==
    /\ i \in Invocations
    /\ invocations[i].pc = "awaiting"
    /\ offlineQueue' = <<invocations[i].req>> \o offlineQueue
    /\ invocations' = [invocations EXCEPT ![i] = Idle]
    /\ UNCHANGED <<offlineEnabled, onLine, offlineSent, nextOffline>>
    /\ UNCHANGED notOffline

\* the connection comes or goes
OnLineChanges ==
    /\ onLine' = ~onLine
    /\ UNCHANGED <<offlineEnabled, offlineQueue, invocations, offlineSent, nextOffline>>
    /\ UNCHANGED notOffline

(***************************************************************************)
(* Specifications                                                          *)
(***************************************************************************)
InitCB == CBInit /\ QueueIdle /\ RetryIdle /\ ClientIdle /\ GuardIdle /\ RateIdle /\ CacheIdle
    /\ DedupIdle
    /\ BatchIdle
    /\ OfflineIdle
NextCB == CanAttemptRequest \/ RecordFailure \/ RecordSuccess \/ GetState \/ CBTick
SpecCB == InitCB /\ [][NextCB]_vars

CBUnused == CBIdle /\ threshold = 1 /\ timeout = 0

InitQueue == QueueInit /\ CBUnused /\ RetryIdle /\ ClientIdle /\ GuardIdle /\ RateIdle /\ CacheIdle
    /\ DedupIdle
    /\ BatchIdle
    /\ OfflineIdle
NextQueue ==
    \/ \E p \in Priorities : Enqueue(p)
    \/ \E r \in running, ok \in BOOLEAN : Complete(r, ok)
    \/ QueueTick
SpecQueue == InitQueue /\ [][NextQueue]_vars

\* every started executor eventually settles
ExecutorsSettle ==
    \A i \in 1..MaxRequests :
        WF_vars(\E r \in running, ok \in BOOLEAN : r.id = i /\ Complete(r, ok))
\* the calls and the completions alone: the clock only feeds the timestamps,
\* which grow with the ids of the calls and so never change the order of the
\* waiting items
NextQueueLive ==
    \/ \E p \in Priorities : Enqueue(p)
    \/ \E r \in running, ok \in BOOLEAN : Complete(r, ok)
SpecQueueLive == InitQueue /\ [][NextQueueLive]_vars /\ ExecutorsSettle

\* the same with clear() and dispose() called at any time
NextQueueDispose ==
    \/ \E p \in Priorities : Enqueue(p)
    \/ \E r \in running, ok \in BOOLEAN : Complete(r, ok)
    \/ Clear
    \/ Dispose
SpecQueueDispose == InitQueue /\ [][NextQueueDispose]_vars /\ ExecutorsSettle

InitRetry == RetryInit /\ CBUnused /\ QueueIdle /\ ClientIdle /\ GuardIdle /\ RateIdle /\ CacheIdle
    /\ DedupIdle
    /\ BatchIdle
    /\ OfflineIdle
NextRetry ==
    \/ Dispatch
    \/ StartAttempt
    \/ \E private \in BOOLEAN : Validate(private)
    \/ \E o \in AttemptOutcomes : Attempt(o)
    \/ \E private \in BOOLEAN, o \in ResponseKinds : CheckRedirect(private, o)
    \/ TimeoutFires
    \/ CallerAbort
    \/ SleepDone
SpecRetry == InitRetry /\ [][NextRetry]_vars

\* the instance's cache manager is new CacheManager(this.config.cache)
InitClient == ClientInit /\ CBUnused /\ QueueIdle /\ RetryIdle /\ GuardIdle /\ RateIdle /\ CacheInit
    /\ DedupIdle
    /\ BatchIdle
    /\ OfflineIdle
NextClient ==
    \/ \E c \in Callers, k \in Keys : Request(c, k)
    \/ \E c \in Callers, v \in SettledValues : Settle(c, v)
    \/ \E c \in Callers : InterceptorThrows(c)
    \/ ClassifierLoaded
SpecClient == InitClient /\ [][NextClient]_vars

InitGuard == GuardInit /\ CBUnused /\ QueueIdle /\ RetryIdle /\ ClientIdle /\ RateIdle /\ CacheIdle
    /\ DedupIdle
    /\ BatchIdle
    /\ OfflineIdle
NextGuard ==
    \/ \E l \in LookupAnswers : GuardCheck(l)
    \/ GuardFetch
    \/ GuardRetry
SpecGuard == InitGuard /\ [][NextGuard]_vars

InitRate == RateInit /\ CBUnused /\ QueueIdle /\ RetryIdle /\ ClientIdle /\ GuardIdle /\ CacheIdle
    /\ DedupIdle
    /\ BatchIdle
    /\ OfflineIdle
NextRate ==
    \/ RateEnqueue
    \/ RateTimerFires
    \/ \E i \in 1..MaxRateTasks, ok \in BOOLEAN : RateSettle(i, ok)
    \/ RateTick
SpecRate == InitRate /\ [][NextRate]_vars

\* time advances, a due timer fires, and every task called settles
RateProgress ==
    /\ WF_vars(RateTick)
    /\ WF_vars(RateTimerFires)
    /\ \A i \in 1..MaxRateTasks : WF_vars(\E ok \in BOOLEAN : RateSettle(i, ok))
SpecRateLive == SpecRate /\ RateProgress

InitCache == CacheInit /\ CBUnused /\ QueueIdle /\ RetryIdle /\ ClientIdle /\ GuardIdle /\ RateIdle
    /\ DedupIdle
    /\ BatchIdle
    /\ OfflineIdle
NextCache ==
    \/ \E k \in CacheKeys, r \in CachedResponses, ttl \in 0..MaxTtl : CacheSet(k, r, ttl)
    \/ \E k \in CacheKeys : CacheGet(k)
    \/ \E b \in Storages : CacheGetDeletes(b)
    \/ \E k \in CacheKeys : CacheDelete(k)
    \/ CacheClear
    \/ \E t \in TimerKeys : EvictionTimerFires(t)
    \/ \E k \in CacheKeys : AdapterExpires(k)
    \/ CacheTick
SpecCache == InitCache /\ [][NextCache]_vars

\* the manager with the memory storage alone
MemoryResponses == {[status |-> 200, text |-> "a"]}
\* the entries of the memory cache do not interact: set(), get(), delete() and
\* the timer callback touch the entry under their own key alone, and clear()
\* drops every entry alike; one key is followed
MemoryKeys == {1}
InitMemoryCache == MemoryCacheInit /\ CBUnused /\ QueueIdle /\ RetryIdle /\ ClientIdle /\ GuardIdle /\ RateIdle
    /\ DedupIdle
    /\ BatchIdle
    /\ OfflineIdle
NextMemoryCache ==
    \/ \E k \in MemoryKeys, r \in MemoryResponses, ttl \in 0..MaxTtl : CacheSet(k, r, ttl)
    \/ \E k \in MemoryKeys : CacheGet(k)
    \/ \E k \in MemoryKeys : CacheDelete(k)
    \/ CacheClear
    \/ \E t \in TimerKeys : EvictionTimerFires(t)
    \/ CacheTick
SpecMemoryCache == InitMemoryCache /\ [][NextMemoryCache]_vars

InitDedup == DedupInit /\ CBUnused /\ QueueIdle /\ RetryIdle /\ ClientIdle /\ GuardIdle /\ RateIdle /\ CacheIdle
    /\ BatchIdle
    /\ OfflineIdle
NextDedup ==
    \/ \E k \in Keys : GetPending(k)
    \/ \E k \in Keys : SetPending(k)
    \/ \E k \in Keys : RemovePending(k)
    \/ Cleanup
    \/ \E p \in Promises, ok \in BOOLEAN : PromiseSettles(p, ok)
    \/ DedupDestroy
    \/ DedupTick
SpecDedup == InitDedup /\ [][NextDedup]_vars

(***************************************************************************)
(* Properties of the circuit breaker (checked under SpecCB)                *)
(***************************************************************************)

\* C4: starting from CLOSED the circuit opens exactly when the number of
\* consecutive recordFailure() calls reaches threshold: it is CLOSED while
\* fewer than threshold consecutive failures were recorded, a recordFailure()
\* made in CLOSED opens it iff it is the threshold-th consecutive one, and a
\* recordSuccess() restarts the count from 0.
C4_OpensAtThreshold ==
    /\ [](consecFailures < threshold => state = "CLOSED")
    /\ [](consecFailures >= threshold => state # "CLOSED")
    /\ [][(state = "CLOSED" /\ RecordFailure)
            => (state' = "OPEN" <=> consecFailures' = threshold)]_vars
    /\ [][RecordSuccess => (consecFailures' = 0 /\ failureCount' = 0)]_vars

\* a success restarted the count and threshold further failures opened the circuit
C4_Witness ==
    /\ threshold >= 2
    /\ lastSuccessIn = "CLOSED"
    /\ failedIn = "CLOSED"
    /\ state = "OPEN"
    /\ consecFailures = threshold

\* C5: a canAttemptRequest() made while OPEN returns false and leaves the
\* state OPEN when the time since the last failure does not exceed timeout,
\* and returns true and moves to HALF_OPEN when it exceeds timeout.
C5_OpenUntilTimeout ==
    [][(state = "OPEN" /\ CanAttemptRequest)
        => IF clock - lastFailureTime > timeout
           THEN state' = "HALF_OPEN" /\ lastResult' = "true"
           ELSE state' = "OPEN" /\ lastResult' = "false"]_vars

\* a call at exactly lastFailureTime + timeout was refused, a later one admitted
C5_Witness ==
    /\ timeout >= 1
    /\ state = "HALF_OPEN"
    /\ lastResult = "true"
    /\ deniedAt = lastFailureTime + timeout
    /\ clock = deniedAt + 1

\* C6: HALF_OPEN admits a single probe: between entering HALF_OPEN and the
\* next recordSuccess()/recordFailure(), canAttemptRequest() returns true at
\* most once.
C6_SingleProbe == state = "HALF_OPEN" => admitted <= 1

\* C7: a recordFailure() in HALF_OPEN re-opens the circuit with
\* lastFailureTime = the time of that failure, and canAttemptRequest() is
\* refused until more than timeout has elapsed from that time.
C7_HalfOpenFailureReopens ==
    /\ [][(state = "HALF_OPEN" /\ RecordFailure)
            => (state' = "OPEN" /\ lastFailureTime' = clock)]_vars
    /\ [][(state = "OPEN" /\ failedIn = "HALF_OPEN" /\ CanAttemptRequest
            /\ clock - lastFailureTime <= timeout)
            => (state' = "OPEN" /\ lastResult' = "false")]_vars

\* the probe failed at a later time than the first opening, and a call made
\* after it was refused
C7_Witness ==
    /\ threshold >= 2
    /\ timeout >= 1
    /\ state = "OPEN"
    /\ failedIn = "HALF_OPEN"
    /\ lastFailureTime > timeout
    /\ lastResult = "false"
    /\ deniedAt = lastFailureTime + timeout

\* C8: a recordSuccess() in HALF_OPEN closes the circuit with failureCount 0,
\* after which the circuit stays CLOSED until threshold further consecutive
\* failures were recorded.
C8_HalfOpenSuccessCloses ==
    /\ [][(state = "HALF_OPEN" /\ RecordSuccess)
            => (state' = "CLOSED" /\ failureCount' = 0)]_vars
    /\ [](lastSuccessIn = "HALF_OPEN"
            => (state = "CLOSED" <=> consecFailures < threshold))

\* closed from HALF_OPEN, then opened again by exactly threshold failures
C8_Witness ==
    /\ threshold >= 2
    /\ lastSuccessIn = "HALF_OPEN"
    /\ state = "OPEN"
    /\ failedIn = "CLOSED"
    /\ consecFailures = threshold

\* C9: the number of onOpen invocations equals the number of CLOSED -> OPEN
\* transitions.
C9_OnOpenOncePerOpening == onOpenCalls = closedToOpen

(***************************************************************************)
(* Properties of the queue manager (checked under SpecQueue)               *)
(***************************************************************************)

\* C2: with the queue enabled, the number of executors running at the same
\* time and the activeRequests counter never exceed maxConcurrent, whatever
\* the sequence of enqueue() calls and of executor successes and failures.
C2_ConcurrencyCap ==
    qEnabled => /\ Cardinality(running) <= maxConcurrent
                /\ activeRequests <= maxConcurrent

\* at full concurrency after a failure, with one executor started from the
\* queue and an item still waiting
C2_Witness ==
    /\ qEnabled
    /\ maxConcurrent = 2
    /\ activeRequests = 2
    /\ Cardinality(running) = 2
    /\ Len(queue) >= 1
    /\ \E i \in 1..MaxRequests : settled[i] = "rejected"
    /\ \E r \in running : r.via = "queued"

\* the waiting item a starts before the waiting item b: higher priority, or
\* the same priority and enqueued earlier
StartsBefore(a, b) ==
    \/ PriorityValue(a.priority) > PriorityValue(b.priority)
    \/ /\ PriorityValue(a.priority) = PriorityValue(b.priority)
       /\ a.id < b.id

\* C3: whenever the queue starts a waiting item, that item has the highest
\* priority among the waiting items and is the earliest enqueued of that
\* priority; a higher-priority item enqueued later starts before the
\* lower-priority items already waiting.
C3_PriorityOrder ==
    [][\A r \in running' \ running :
          r.via = "queued" =>
              /\ \E i \in SeqRange(queue) : i.id = r.id /\ i.priority = r.priority
              /\ \A j \in SeqRange(queue') :
                    StartsBefore([id |-> r.id, priority |-> r.priority], j)]_vars

\* [low, critical, normal, high] enqueued at full concurrency (calls 2..5):
\* critical was started first; high, normal, low wait in that order
C3_Witness ==
    /\ qEnabled
    /\ maxConcurrent = 1
    /\ running = {[id |-> 3, via |-> "queued", priority |-> "critical"]}
    /\ Len(queue) = 3
    /\ <<queue[1].id, queue[2].id, queue[3].id>> = <<5, 4, 2>>
    /\ <<queue[1].priority, queue[2].priority, queue[3].priority>>
           = <<"high", "normal", "low">>

\* C28: when an executor rejects, its caller is rejected with the executor's
\* error or with an error whose cause it is, the slot is released, and the
\* queue goes on exactly as after a success: the head of the waiting items is
\* started in the freed slot, or the counter drops by one if nothing waits.
C28_FailureReleasesSlot ==
    [][\A r \in running \ running' :
          settled'[r.id] = "rejected" =>
              /\ rejection'[r.id] \in {"original", "cause"}
              /\ r.via = "queued" => rejection'[r.id] = "cause"
              /\ qEnabled =>
                    IF queue = <<>>
                    THEN /\ activeRequests' = activeRequests - 1
                         /\ running' = running \ {r}
                         /\ queue' = <<>>
                    ELSE /\ activeRequests' = activeRequests
                         /\ queue' = Tail(queue)
                         /\ running' = (running \ {r}) \cup
                                {[id |-> Head(queue).id, via |-> "queued",
                                  priority |-> Head(queue).priority]}]_vars

\* an executor started from the queue has failed, its caller holds the
\* wrapped error, and the next waiting item runs in its slot
C28_Witness ==
    /\ qEnabled
    /\ maxConcurrent = 1
    /\ activeRequests = 1
    /\ settled[2] = "rejected"
    /\ rejection[2] = "cause"
    /\ running = {[id |-> 3, via |-> "queued", priority |-> "normal"]}
    /\ Len(queue) = 1

\* C29: with every started executor settling in the end (and no clear() or
\* dispose()), the calls accepted by enqueue() do not wait for ever: whenever
\* some call is pending, a state follows in which every call made so far has
\* been started and settled and nothing waits or runs.
C29_QueueDrains ==
    (\E i \in 1..MaxRequests : settled[i] = "pending")
        ~> /\ \A i \in 1..MaxRequests : settled[i] # "pending"
           /\ queue = <<>>
           /\ running = {}
           /\ activeRequests = 0

\* five calls at two slots, three of them made to wait, all settled
C29_Witness ==
    /\ qEnabled
    /\ maxConcurrent = 2
    /\ queue = <<>>
    /\ running = {}
    /\ \A i \in 1..5 : settled[i] \in {"resolved", "rejected"}
    /\ settled[3] = "rejected"

(***************************************************************************)
(* Properties of the retry engine (checked under SpecRetry)                *)
(***************************************************************************)
IsNonDecreasing(s) == \A i \in 1..(Len(s) - 1) : s[i] <= s[i + 1]

IsPrefixOf(s, t) == Len(s) <= Len(t) /\ \A i \in 1..Len(s) : s[i] = t[i]

\* C10: with exponential backoff, the delay slept after failed attempt n
\* (n in 0..4) is min(delay * 2^n, maxRetry): never negative, never above
\* maxRetry, non-decreasing in n, and 100, 200, 400, 800, 1000 for delay = 100
\* and maxRetry = 1000.
C10_BackoffDelay ==
    (retryConfig.exponentialBackoff /\ pc # "idle") =>
        /\ \A i \in 1..Len(sleeps) :
              /\ i - 1 \in 0..4
              /\ sleeps[i] = IF retryConfig.delay * (2 ^ (i - 1)) <= retryConfig.maxRetry
                             THEN retryConfig.delay * (2 ^ (i - 1))
                             ELSE retryConfig.maxRetry
              /\ sleeps[i] >= 0
              /\ sleeps[i] <= retryConfig.maxRetry
        /\ IsNonDecreasing(sleeps)
        /\ pc = "sleep" => (Len(sleeps) = attempt + 1 /\ waitTime = sleeps[attempt + 1])
        /\ (retryConfig.delay = 100 /\ retryConfig.maxRetry = 1000)
              => IsPrefixOf(sleeps, <<100, 200, 400, 800, 1000>>)

\* the five backoff sleeps of the example, the fifth clamped to maxRetry
C10_Witness ==
    /\ retryConfig.exponentialBackoff
    /\ pc = "sleep"
    /\ attempt = 4
    /\ sleeps = <<100, 200, 400, 800, 1000>>

\* C11 as stated: without exponential backoff, every retry sleeps exactly the
\* configured delay, whatever the attempt index.
C11_ConstantDelay ==
    (~retryConfig.exponentialBackoff /\ pc # "idle") =>
        \A i \in 1..Len(sleeps) : sleeps[i] = retryConfig.delay

\* C11, amended: without exponential backoff, every retry sleeps
\* min(delay, maxRetry), whatever the attempt index: exactly the configured
\* delay when delay <= maxRetry, and maxRetry when the delay is above it.
C11_ConstantDelayCapped ==
    (~retryConfig.exponentialBackoff /\ pc # "idle") =>
        /\ \A i \in 1..Len(sleeps) :
              sleeps[i] = IF retryConfig.delay <= retryConfig.maxRetry
                          THEN retryConfig.delay
                          ELSE retryConfig.maxRetry
        /\ pc = "sleep" => (Len(sleeps) = attempt + 1 /\ waitTime = sleeps[attempt + 1])

\* three constant sleeps of the configured delay, backoff disabled
C11_Witness ==
    /\ ~retryConfig.exponentialBackoff
    /\ pc = "sleep"
    /\ attempt = 2
    /\ retryConfig.delay = 100
    /\ retryConfig.maxRetry = 1000
    /\ sleeps = <<100, 100, 100>>

\* C12: the retry count dispatchRequest works with is the configured count
\* clamped to at most 5, so one call makes at most count + 1 and never more
\* than 6 fetch attempts, and exactly min(count, 5) + 1 of them when every
\* attempt fails retryably.
C12_AttemptsBounded ==
    pc # "idle" =>
        /\ retryConfig.count = (IF retry.count <= 5 THEN retry.count ELSE 5)
        /\ fetches <= retryConfig.count + 1
        /\ fetches <= 6
        /\ (pc \in {"returned", "thrown"} /\ allRetryable) =>
               fetches = (IF retry.count <= 5 THEN retry.count ELSE 5) + 1

\* a configured count of 6 ends after six attempts that all failed retryably
C12_Witness ==
    /\ pc = "thrown"
    /\ allRetryable
    /\ retry.count = 6
    /\ fetches = 6
    /\ Len(sleeps) = 5

\* C13 as stated: a retry count written in the instance configuration is
\* honoured: a request that keeps failing retryably is attempted at most
\* count + 1 times (count = 3: four attempts).
C13_InstanceCountHonoured ==
    (source = "instance" /\ pc # "idle") => fetches <= given.count + 1

C15_TimeoutRetried ==
    (pc = "thrown" /\ lastOutcome = "timeout") => attempt >= retryConfig.count

\* C16 as stated: whether or not the caller passed a signal, a fetch that
\* outlives the attempt's timeout is aborted: no fetch is in flight once the
\* timer has fired.
C16_TimeoutAbortsFetch ==
    pc = "fetching" => ~timedOut

C24_DisabledIsPassThrough ==
    (~given.enabled /\ pc # "idle") => (fetches <= 1 /\ sleeps = <<>>)

(***************************************************************************)
(* Properties of the SafetyGuard (checked under SpecGuard)                 *)
(***************************************************************************)

\* the reserved IPv4 ranges the specification names: loopback, RFC 1918, link-local
ReservedV4(p) ==
    \/ p[1] = 127
    \/ p[1] = 10
    \/ (p[1] = 172 /\ p[2] \in 16..31)
    \/ (p[1] = 192 /\ p[2] = 168)
    \/ (p[1] = 169 /\ p[2] = 254)

\* an address outside every reserved block
PublicV4(p) ==
    /\ p[1] \in {8, 11, 169, 172, 192}
    /\ ~ReservedV4(p)

\* C19 as stated: once the target check of an attempt has answered, a literal
\* IPv4 host in 127/8, 10/8, 172.16/12, 192.168/16 or 169.254/16 and a
\* loopback, link-local or unique-local IPv6 literal are reported private and
\* the call ends blocked without a fetch; a public IPv4 literal is not blocked.
C19_PrivateLiteralBlocked ==
    (guardAttempt > 0 \/ guardPc # "attempt") =>
        /\ (host.form = "v4" /\ ReservedV4(host.addr.parts)) =>
              (isPrivate /\ guardPc = "blocked" /\ guardFetches = 0)
        /\ (host.form = "bracketed6" /\ host.addr \in {Loopback6, UniqueLocal6, LinkLocal6}) =>
              (isPrivate /\ guardPc = "blocked" /\ guardFetches = 0)
        /\ (host.form = "v4" /\ PublicV4(host.addr.parts)) =>
              (~isPrivate /\ guardPc # "blocked")

\* C20: every fetch is handed exactly the entries of config.headers whose
\* name, lowercased, is on the allow-list, each with its value; no other name
\* (Cookie, Set-Cookie) is ever among them, on the first attempt and on a retry.
C20_OnlySafeHeadersSent ==
    guardFetches > 0 =>
        /\ DOMAIN sentHeaders =
              {n \in DOMAIN headers :
                  \E safe \in {"accept", "accept-language", "content-type",
                               "content-length", "user-agent", "authorization",
                               "x-requested-with", "x-api-key", "x-xsrf-token"} :
                      ToLowerCase(n) = safe}
        /\ \A n \in DOMAIN sentHeaders : sentHeaders[n] = headers[n]
        /\ "Cookie" \notin DOMAIN sentHeaders
        /\ "Set-Cookie" \notin DOMAIN sentHeaders
        /\ "X-Custom" \notin DOMAIN sentHeaders

\* a retry whose fetch got AUTHORIZATION and X-Api-Key of a map that also
\* held Cookie and Set-Cookie
C20_Witness ==
    /\ guardPc = "fetched"
    /\ guardAttempt = 1
    /\ guardFetches = 2
    /\ DOMAIN headers = {"Cookie", "Set-Cookie", "AUTHORIZATION", "X-Api-Key"}
    /\ DOMAIN sentHeaders = {"AUTHORIZATION", "X-Api-Key"}
    /\ sentHeaders["AUTHORIZATION"] = "v2"

\* C27: every fetch of dispatchRequest, on the first attempt and on each
\* retry, comes right after the URL passed isValidUrl and isPrivateIp answered
\* not private in that same attempt: the verdict of an earlier attempt is
\* never reused, and a URL that fails a check is never fetched.
C27_ValidatedBeforeEveryFetch ==
    /\ guardPc \in {"checked", "fetched"} =>
          /\ checkedAttempt = guardAttempt
          /\ IsValidUrl(host)
          /\ ~isPrivate
          /\ ~IsPrivateIp(host, lookup)
    /\ guardPc = "fetched" => guardFetches = guardAttempt + 1
    /\ guardPc \in {"attempt", "checked", "blocked"} => guardFetches = guardAttempt
    /\ ~IsValidUrl(host) => guardFetches = 0

\* the retry of a request to a DNS name: resolved and checked again, then fetched
C27_Witness ==
    /\ guardPc = "fetched"
    /\ guardAttempt = 1
    /\ guardFetches = 2
    /\ checkedAttempt = 1
    /\ host.form = "name"
    /\ lookup = [ok |-> TRUE, addresses |-> {V4(8, 8, 8, 8)}]

(***************************************************************************)
(* Properties of the rate limiter (checked under SpecRate, SpecRateLive)   *)
(***************************************************************************)

RateFifo ==
    /\ \A k \in 1..(Len(rateQueue) - 1) : rateQueue[k] < rateQueue[k + 1]
    /\ \A k \in 1..Len(rateQueue), i \in 1..MaxRateTasks :
          dispatchAge[i] # -1 => i < rateQueue[k]

\* C30: a task that cannot be dispatched at once waits in the queue; while
\* tasks wait a poll timer is pending; each poll dispatches the head of the
\* queue first, as far as the window has room; and, time advancing, every
\* task is dispatched and its promise settles with what its own fn() settled with.
C30_QueuedTasksDispatched ==
    /\ [](rateEnabled =>
            /\ (rateQueue # <<>> => timer)
            /\ RateFifo
            /\ \A i \in 1..MaxRateTasks :
                  /\ (i \in SeqRange(rateQueue) =>
                         (i \in waited /\ rateSettled[i] = "pending" /\ dispatchAge[i] = -1))
                  /\ (rateSettled[i] \in {"resolved", "rejected"} =>
                         (dispatchAge[i] # -1 /\ i \notin rateRunning)))
    /\ (\E i \in 1..MaxRateTasks : rateSettled[i] = "pending")
          ~> (rateQueue = <<>> /\ rateRunning = {}
                 /\ \A i \in 1..MaxRateTasks : rateSettled[i] # "pending")

\* the third of three tasks had to wait for the window of one and was
\* rejected with its own error
C30_Witness ==
    /\ rateEnabled
    /\ maxRequests = 1
    /\ perMilliseconds = 2
    /\ waited = {2, 3}
    /\ rateSettled[3] = "rejected"
    /\ rateSettled[2] = "resolved"
    /\ rateQueue = <<>>

(***************************************************************************)
(* Properties of the response cache (checked under SpecCache)              *)
(***************************************************************************)

\* the get() calls that return in this step, and those of them that were
\* also made in this step
Returned(b) == lastGet'[b].n # lastGet[b].n
Answered(b) == Returned(b) /\ staleGet[b] = 0

\* C21: on every storage an entry set at t0 expires at t0 + ttl, a get()
\* is a hit exactly when the key's last set() has not been deleted or cleared
\* and now < t0 + ttl, and after a miss the storage holds no entry for the key.
C21_HitIffUnexpired ==
    [][\A b \in Storages :
          /\ \A k \in CacheKeys :
                cacheStore'[b][k].present =>
                    cacheStore'[b][k].expiresAt = latestSet'[k].expiresAt
          /\ (cacheEnabled /\ Answered(b)) =>
                (lastGet'[b].hit <=>
                    (latestSet[lastGet'[b].key].live
                        /\ cacheClock < latestSet[lastGet'[b].key].expiresAt))
          /\ (cacheEnabled /\ Returned(b) /\ ~lastGet'[b].hit) =>
                ~cacheStore'[b][lastGet'[b].key].present]_vars

\* C22: a get() is a hit on all three storages or on none, and a hit returns
\* the status and the body of the response that was stored.
C22_StoragesInterchangeable ==
    /\ \A b1, b2 \in Storages :
          (staleGet[b1] = 0 /\ staleGet[b2] = 0) => lastGet[b1].hit = lastGet[b2].hit
    /\ \A b \in Storages :
          lastGet[b].hit =>
              /\ lastGet[b].status = lastGet[b].stored.status
              /\ lastGet[b].body = PlainBody(lastGet[b].stored.text)

(***************************************************************************)
(* Properties of the client's request path (checked under SpecClient)      *)
(***************************************************************************)

\* C1: of the calls with the same method, URL and body issued before the
\* first of them settles, only the first starts a dispatchRequest, and all of
\* them settle with the same value.
C1_DedupIdempotence ==
    /\ \A k \in Keys : dispatching[k] <= 1
    /\ \A c \in Callers :
          (calls[c].pc # "idle" /\ calls[c].leader # c) => ~calls[c].dispatched
    /\ \A c, d \in Callers :
          (calls[c].pc = "settled" /\ calls[d].pc = "settled"
           /\ calls[c].leader = calls[d].leader)
              => calls[c].value = calls[d].value

\* C23: with caching enabled a call for a key whose earlier call has
\* completed with a response makes no network attempt, and once a call has
\* completed with a response the cache holds an entry.
C23_SecondRequestFromCache ==
    [][cacheEnabled =>
          /\ \A c \in Callers :
                (/\ calls[c].pc = "idle"
                 /\ calls'[c].pc # "idle"
                 /\ \E d \in Callers : /\ calls[d].pc = "settled"
                                       /\ calls[d].value = "response"
                                       /\ calls[d].key = calls'[c].key)
                    => (~calls'[c].dispatched /\ dispatching' = dispatching)
          /\ (\E c \in Callers : calls'[c].pc = "settled" /\ calls'[c].value = "response")
                => \E b \in Storages, k \in CacheKeys : cacheStore'[b][k].present]_vars

\* C26: the error request() throws is the error first thrown, or has it in
\* its cause chain.
C26_OriginalErrorKept ==
    \A c \in Callers :
        (calls[c].pc = "settled" /\ calls[c].value = "error") =>
            \E i \in 1..Len(surfaced[c].chain) :
                SubSeq(surfaced[c].chain, i, Len(surfaced[c].chain)) = surfaced[c].original

(***************************************************************************)
(* Properties of the deduplication manager (checked under SpecDedup)       *)
(***************************************************************************)

\* C31: getPending(key) returns the registered promise exactly when a record
\* for key exists and its age is below TTL; a record of age TTL or more is
\* removed and null is returned; the sweep removes exactly the records of age
\* TTL or more; neither touches a younger record.
C31_PendingWithinTTL ==
    [][dedupEnabled =>
          /\ \A k \in Keys :
                GetPending(k) =>
                    /\ (lastPending'.promise # 0) <=>
                          (pendingRequests[k].present /\ pendingRequests[k].age < TTL)
                    /\ lastPending'.promise # 0 =>
                          /\ lastPending'.promise = pendingRequests[k].promise
                          /\ pendingRequests' = pendingRequests
                    /\ (pendingRequests[k].present /\ pendingRequests[k].age >= TTL) =>
                          /\ ~pendingRequests'[k].present
                          /\ \A j \in Keys \ {k} : pendingRequests'[j] = pendingRequests[j]
          /\ Cleanup =>
                \A k \in Keys :
                    IF pendingRequests[k].present /\ pendingRequests[k].age >= TTL
                    THEN ~pendingRequests'[k].present
                    ELSE pendingRequests'[k] = pendingRequests[k]]_vars

\* a lookup found the record of key 1 expired and removed it, and the sweep
\* has spared the younger record of key 2
C31_Witness ==
    /\ dedupEnabled
    /\ TTL = 2
    /\ lastPending.kind = "expired"
    /\ lastPending.key = 1
    /\ ~pendingRequests[1].present
    /\ pendingRequests[2].present
    /\ pendingRequests[2].age = 1

\* C32: a record is in the pending map only while its promise is pending.
C32_RecordGoneOnCompletion ==
    \A k \in Keys :
        pendingRequests[k].present => promiseState[pendingRequests[k].promise] = "pending"

(***************************************************************************)
(* Properties of the queue with clear() and dispose()                      *)
(***************************************************************************)

\* the executors that hold a slot
Slotted == {r \in running : r.via # "passthrough"}

\* C33: with dispose() called at any time, activeRequests is never
\* negative, equals the number of executors running, and at most
\* maxConcurrent executors run at once.
C33_DisposeKeepsAccounting ==
    qEnabled =>
        /\ activeRequests >= 0
        /\ activeRequests = Cardinality(Slotted)
        /\ Cardinality(Slotted) <= EffectiveMaxConcurrent(maxConcurrent)

\* C34: every call of enqueue() is eventually settled, also when clear() or
\* dispose() is called while it waits.
C34_ClearedItemsSettle ==
    \A i \in 1..MaxRequests : (settled[i] = "pending") ~> (settled[i] # "pending")

\* C35: without dispose(), items wait only while every slot is taken, and a
\* call is started by enqueue() itself only when no item is waiting.
C35_WorkConserving ==
    /\ []((qEnabled /\ queue # <<>>) =>
             activeRequests = EffectiveMaxConcurrent(maxConcurrent))
    /\ [][(qEnabled /\ \E r \in running' \ running : r.via = "direct") => queue = <<>>]_vars

\* two items wait at two slots taken, one of them taken by an item started
\* from the queue after a completion
C35_Witness ==
    /\ qEnabled
    /\ maxConcurrent = 2
    /\ Len(queue) = 2
    /\ activeRequests = 2
    /\ \E r \in running : r.via = "queued"
    /\ \E r \in running : r.via = "direct"

(***************************************************************************)
(* Further properties of the circuit breaker (checked under SpecCB)        *)
(***************************************************************************)

\* C36: the circuit is CLOSED exactly while failureCount < threshold (so
\* OPEN and HALF_OPEN have failureCount >= threshold); failureCount changes
\* only by recordFailure (+1) and recordSuccess (to 0); canAttemptRequest and
\* getState change neither failureCount nor lastFailureTime.
C36_StateMatchesFailureCount ==
    /\ []((state = "CLOSED") <=> (failureCount < threshold))
    /\ [][/\ failureCount' # failureCount =>
                \/ RecordFailure /\ failureCount' = failureCount + 1
                \/ RecordSuccess /\ failureCount' = 0
          /\ (CanAttemptRequest \/ GetState) =>
                (failureCount' = failureCount /\ lastFailureTime' = lastFailureTime)]_vars

\* a probe was let through after the cooldown with the count above the threshold
C36_Witness ==
    /\ state = "HALF_OPEN"
    /\ threshold = 2
    /\ failureCount = 3
    /\ lastResult = "true"

InitBatch == BatchInit /\ CBUnused /\ QueueIdle /\ RetryIdle /\ ClientIdle /\ GuardIdle /\ RateIdle
    /\ CacheIdle /\ DedupIdle /\ OfflineIdle
NextBatch ==
    \/ BatchAdd
    \/ BatchExecute
    \/ \E batch \in inFlight, n \in 0..(MaxBatchRequests + 1) : BatchResponds(batch, n)
    \/ \E batch \in inFlight : BatchFails(batch)
\* an armed timer fires and every fetch is answered; add() is never owed
BatchProgress ==
    /\ WF_vars(BatchExecute)
    /\ WF_vars(\E batch \in inFlight :
                  \/ BatchFails(batch)
                  \/ \E n \in 0..(MaxBatchRequests + 1) : BatchResponds(batch, n))
SpecBatch == InitBatch /\ [][NextBatch]_vars /\ BatchProgress

InitOffline == OfflineInit /\ CBUnused /\ QueueIdle /\ RetryIdle /\ ClientIdle /\ GuardIdle
    /\ RateIdle /\ CacheIdle /\ DedupIdle /\ BatchIdle
NextOffline ==
    \/ AddRequest
    \/ \E i \in Invocations : OfflineProcessQueue(i)
    \/ \E i \in Invocations : FetchResolves(i)
    \/ \E i \in Invocations : FetchRejects(i)
    \/ OnLineChanges
SpecOffline == InitOffline /\ [][NextOffline]_vars

(***************************************************************************)
(* Properties of the memory cache (checked under SpecMemoryCache)          *)
(***************************************************************************)

\* C37: an eviction timer removes the entry under its key only when that
\* entry's own expiresAt has been reached, whichever set() armed the timer,
\* and leaves every other key alone; a get() of the memory cache never
\* returns an entry at or past its expiresAt.
C37_TimerSparesNewerEntry ==
    [][/\ \A t \in TimerKeys :
             EvictionTimerFires(t) =>
                 /\ (cacheStore'["memory"][t.key] # cacheStore["memory"][t.key]) =>
                       /\ cacheStore["memory"][t.key].present
                       /\ ~cacheStore'["memory"][t.key].present
                       /\ cacheClock >= cacheStore["memory"][t.key].expiresAt
                 /\ \A k \in CacheKeys \ {t.key} :
                       cacheStore'["memory"][k] = cacheStore["memory"][k]
       /\ \A k \in CacheKeys :
             (CacheGet(k) /\ lastGet'["memory"].hit) =>
                 /\ cacheStore["memory"][k].present
                 /\ cacheClock < cacheStore["memory"][k].expiresAt
                 /\ lastGet'["memory"].stored = cacheStore["memory"][k]]_vars

\* the timer of an earlier set() has run, no timer is left that is due, and
\* the entry of the later set() is still held and was returned
C37_Witness ==
    /\ managers = {"memory"}
    /\ cacheClock = 2
    /\ configTtl = 1
    /\ cacheStore["memory"][1].present
    /\ cacheStore["memory"][1].expiresAt = 3
    /\ evictionTimers = {[key |-> 1, due |-> 3]}
    /\ timerSpared
    /\ lastGet["memory"].hit

(***************************************************************************)
(* Properties of the target check when the host cannot be classified       *)
(***************************************************************************)

\* C38 as stated: the check fails closed. fetch is reached only for a URL
\* whose host was positively classified as not private: a dotted quad outside
\* the private ranges, or a name whose lookup answered and answered no
\* private address. A host whose lookup threw (an unresolvable name, an IPv6
\* literal in brackets) is never fetched.
C38_FailsClosed ==
    guardFetches > 0 =>
        \/ NetIsIP(host) # 0 /\ ~InPrivateRanges(host.addr)
        \/ /\ NetIsIP(host) = 0
           /\ lookup.ok
           /\ \A a \in lookup.addresses : ~InPrivateRanges(a)

(***************************************************************************)
(* Properties of the batch manager (checked under SpecBatch)               *)
(***************************************************************************)

\* C39 as stated: every request passed to add() is eventually part of a
\* fetch and its promise eventually settles, with no further add() needed,
\* also when more than maxBatchSize requests wait as the timer fires and when
\* the result array is shorter than the batch.
C39_EveryRequestSentAndSettled ==
    \A i \in BatchIds :
        (batchSettled[i] = "pending") ~>
            (i \in batchSent /\ batchSettled[i] \in {"resolved", "rejected"})

(***************************************************************************)
(* Properties of the offline queue (checked under SpecOffline)             *)
(***************************************************************************)

\* C40 as stated: under every interleaving of processQueue() calls the
\* queued requests stay in the order they were added, no request has more
\* than one successful fetch, and every request added is in the queue, being
\* fetched, or was fetched successfully.
C40_OrderKeptNoneTwiceNoneLost ==
    /\ \A a, b \in 1..Len(offlineQueue) : a < b => offlineQueue[a] < offlineQueue[b]
    /\ \A r \in OfflineIds : offlineSent[r] <= 1
    /\ \A r \in 1..(nextOffline - 1) :
          \/ r \in SeqRange(offlineQueue)
          \/ \E i \in Invocations : invocations[i] = Awaiting(r)
          \/ offlineSent[r] = 1

====
